---- MODULE Spec2Model ----
(***************************************************************************)
(* Model of the rigging helpers of rig_helpers: attribute_helper.py (free  *)
(* functions), attributes/lib.py (class AttributeHelper and its connection *)
(* functions) and matrix_helper.py.                                        *)
(*                                                                         *)
(* Every helper is a straight-line sequence of host commands (maya.cmds)   *)
(* guarded by local checks.  A helper is modelled as an operator from a    *)
(* machine record (the scene graph, the host commands issued so far, the   *)
(* pending exception and the return value) to a machine record; one action *)
(* per helper runs the whole call and commits its result.  A raised        *)
(* exception stops the call where it is raised: what the call changed      *)
(* before stays changed.                                                   *)
(*                                                                         *)
(* The host commands themselves are not part of the repository.  Each is   *)
(* modelled by the effect its call site relies on; the failure modes kept  *)
(* are those the helpers themselves guard against (a missing node or       *)
(* attribute, a duplicate attribute, a locked or driven attribute).        *)
(***************************************************************************)
EXTENDS Integers, Sequences, FiniteSets, TLC

\* Attribute values and default values range over 0..MaxVal; 0 stands for
\* every value Python treats as false (0, 0.0, False).
MaxVal == 1
Values == 0..MaxVal

\* Names of the user-defined (dynamic) attributes the calls may use.
UserAttrs == {"u1", "u2"}

\* A node name that no scene ever holds.
Ghost == "ghost"

\* The nine transform channels: '{}{}'.format(attr, axis).
Channels ==
  {"translateX", "translateY", "translateZ",
   "rotateX", "rotateY", "rotateZ",
   "scaleX", "scaleY", "scaleZ"}

TranslateChannels == {"translateX", "translateY", "translateZ"}
RotateChannels == {"rotateX", "rotateY", "rotateZ"}
ScaleChannels == {"scaleX", "scaleY", "scaleZ"}

VARIABLES
  nodes,   \* existing nodes: name -> [type, readOnly]
  plugs,   \* existing attributes: <<node, attr>> -> attribute record
  conns,   \* connections: set of <<source plug, destination plug>>
  xform,   \* world-space transform of each node: name -> [pos, rot, scl]
  call,    \* the last helper call: its name, arguments, exception, return value
  log,     \* the host commands the last call issued, in order
  pre,     \* the scene as it was when the last call started
  last     \* per attribute, the last successful lifecycle operation

vars == <<nodes, plugs, conns, xform, call, log, pre, last>>

----------------------------------------------------------------------------
\* Return values.

NoRet == [kind |-> "None", val |-> 0]
RetFalse == [kind |-> "bool", val |-> 0]
RetTrue == [kind |-> "bool", val |-> 1]
RetValue(v) == [kind |-> "value", val |-> v]

\* The machine a call starts from: the current scene, nothing issued yet.
Start ==
  [nodes |-> nodes, plugs |-> plugs, conns |-> conns, xform |-> xform,
   log |-> <<>>, exc |-> "none", ret |-> NoRet]

Scene(m) == [nodes |-> m.nodes, plugs |-> m.plugs, conns |-> m.conns, xform |-> m.xform]

CurrentScene == [nodes |-> nodes, plugs |-> plugs, conns |-> conns, xform |-> xform]

Raise(m, e) == [m EXCEPT !.exc = e, !.ret = NoRet]

Return(m, r) == [m EXCEPT !.ret = r]

Issue(m, cmd, n, a, arg) ==
  [m EXCEPT !.log = Append(@, [cmd |-> cmd, node |-> n, attr |-> a, arg |-> arg])]

----------------------------------------------------------------------------
\* Host queries.

\* cmds.objExists(node)
objExists(m, n) == n \in DOMAIN m.nodes

\* cmds.objExists('node.attr')
plugExists(m, n, a) == <<n, a>> \in DOMAIN m.plugs

\* cmds.connectionInfo(plug, isDestination=True)
isDestination(m, n, a) == \E c \in m.conns : c[2] = <<n, a>>

\* cmds.getAttr(plug, lock=True)
getAttr_lock(m, n, a) == m.plugs[<<n, a>>].locked

\* cmds.getAttr(plug, settable=True): neither locked nor driven
getAttr_settable(m, n, a) ==
  /\ ~m.plugs[<<n, a>>].locked
  /\ ~isDestination(m, n, a)

\* cmds.getAttr(plug, type=True)
getAttr_type(m, n, a) == m.plugs[<<n, a>>].type

\* A flag of a setAttr call: "T", "F", or "-" when the flag is not passed.
Flag(old, f) == IF f = "-" THEN old ELSE f = "T"

----------------------------------------------------------------------------
\* Host commands.  Each is recorded in the log when it is issued, whether
\* the host then carries it out or rejects it.

\* cmds.setAttr(plug, lock=.., keyable=.., channelBox=..)
cmds_setAttr_flags(m, n, a, lock, keyable, channelBox) ==
  LET m1 == Issue(m, "setAttr", n, a, <<"flags", lock, keyable, channelBox>>)
  IN IF ~plugExists(m, n, a)
     THEN Raise(m1, "HostError")
     ELSE [m1 EXCEPT !.plugs[<<n, a>>] =
             [@ EXCEPT !.locked = Flag(@, lock),
                       !.keyable = Flag(@, keyable),
                       !.channelBox = Flag(@, channelBox)]]

\* cmds.setAttr(plug, value): the host rejects a locked or driven attribute
cmds_setAttr(m, n, a, v) ==
  LET m1 == Issue(m, "setAttr", n, a, <<"value">>)
  IN IF ~plugExists(m, n, a) \/ ~getAttr_settable(m, n, a)
     THEN Raise(m1, "HostError")
     ELSE [m1 EXCEPT !.plugs[<<n, a>>].value = v]

\* cmds.getAttr(plug)
cmds_getAttr(m, n, a) ==
  LET m1 == Issue(m, "getAttr", n, a, <<"value">>)
  IN IF ~plugExists(m, n, a)
     THEN Raise(m1, "HostError")
     ELSE Return(m1, RetValue(m.plugs[<<n, a>>].value))

\* The keyword arguments of an addAttr call that the model keeps.
Kwargs(type, dv, keyable, channelBox) ==
  [type |-> type, dv |-> dv, keyable |-> keyable, channelBox |-> channelBox]

NewPlug(kw) ==
  [type |-> kw.type, locked |-> FALSE, keyable |-> kw.keyable,
   channelBox |-> kw.channelBox, value |-> kw.dv, default |-> kw.dv,
   userDefined |-> TRUE]

WithPlug(m, n, a, rec) ==
  [m EXCEPT !.plugs = [p \in (DOMAIN m.plugs) \cup {<<n, a>>} |->
                         IF p = <<n, a>> THEN rec ELSE m.plugs[p]]]

\* cmds.addAttr(node, longName=attr, **kwargs): the host rejects a missing
\* node and a name that clashes with an existing attribute
cmds_addAttr(m, n, a, kw) ==
  LET m1 == Issue(m, "addAttr", n, a, <<kw.type>>)
  IN IF ~objExists(m, n) \/ plugExists(m, n, a)
     THEN Raise(m1, "HostError")
     ELSE WithPlug(m1, n, a, NewPlug(kw))

\* cmds.addAttr(node, longName=attr, proxy=plug): the new attribute stands
\* for the proxied one and takes its type and value
cmds_addAttr_proxy(m, n, a, pn, pa) ==
  LET m1 == Issue(m, "addAttr", n, a, <<"proxy">>)
  IN IF ~objExists(m, n) \/ plugExists(m, n, a) \/ ~plugExists(m, pn, pa)
     THEN Raise(m1, "HostError")
     ELSE WithPlug(m1, n, a,
            [m.plugs[<<pn, pa>>] EXCEPT !.locked = FALSE, !.userDefined = TRUE])

WithoutPlugs(m, gone) ==
  [m EXCEPT !.plugs = [p \in (DOMAIN m.plugs) \ gone |-> m.plugs[p]],
            !.conns = {c \in m.conns : c[1] \notin gone /\ c[2] \notin gone}]

\* cmds.deleteAttr(node, attribute=attr): the host deletes only a dynamic
\* attribute that is not locked
cmds_deleteAttr(m, n, a) ==
  LET m1 == Issue(m, "deleteAttr", n, a, <<>>)
  IN IF ~plugExists(m, n, a)
     THEN Raise(m1, "HostError")
     ELSE IF m.plugs[<<n, a>>].locked \/ ~m.plugs[<<n, a>>].userDefined
     THEN Raise(m1, "HostError")
     ELSE WithoutPlugs(m1, {<<n, a>>})

\* cmds.connectionInfo(plug, sourceFromDestination=True)
sourceFromDestination(m, n, a) ==
  CHOOSE src \in {c[1] : c \in m.conns} : <<src, <<n, a>>>> \in m.conns

\* cmds.ls(plug, readOnly=True): the plug of a read-only (referenced) node
ls_readOnly(m, n, a) == m.nodes[n].readOnly

\* cmds.connectAttr(source, destination, force=force): the host rejects a
\* missing plug and a locked destination; a destination already driven by
\* another source is rejected unless force, which replaces that connection
cmds_connectAttr(m, sn, sa, dn, da, force) ==
  LET m1 == Issue(m, "connectAttr", dn, da, <<sn, sa>>)
      others == {c \in m.conns : c[2] = <<dn, da>> /\ c[1] # <<sn, sa>>}
  IN IF ~plugExists(m, sn, sa) \/ ~plugExists(m, dn, da)
     THEN Raise(m1, "HostError")
     ELSE IF m.plugs[<<dn, da>>].locked \/ (others # {} /\ ~force)
     THEN Raise(m1, "HostError")
     ELSE [m1 EXCEPT !.conns = (@ \ others) \cup {<<<<sn, sa>>, <<dn, da>>>>}]

\* cmds.disconnectAttr(source, destination)
cmds_disconnectAttr(m, src, dst) ==
  LET m1 == Issue(m, "disconnectAttr", dst[1], dst[2], src)
  IN IF <<src, dst>> \notin m.conns
     THEN Raise(m1, "HostError")
     ELSE [m1 EXCEPT !.conns = @ \ {<<src, dst>>}]

\* Node types that live in the DAG (scene objects); the others are
\* dependency nodes such as animation curves.
DagTypes == {"transform", "nurbsCurve", "bezierCurve", "mesh"}

WithoutNodes(m, gone) ==
  [m EXCEPT !.nodes = [n \in (DOMAIN m.nodes) \ gone |-> m.nodes[n]],
            !.xform = [n \in (DOMAIN m.xform) \ gone |-> m.xform[n]],
            !.plugs = [p \in {q \in DOMAIN m.plugs : q[1] \notin gone} |-> m.plugs[p]],
            !.conns = {c \in m.conns : c[1][1] \notin gone /\ c[2][1] \notin gone}]

\* A node the host deletes when a connection it fed is broken: a dependency
\* node, not read-only, that is left driving nothing.
LeftBehind(m, n) ==
  /\ n \in DOMAIN m.nodes
  /\ m.nodes[n].type \notin DagTypes
  /\ ~m.nodes[n].readOnly
  /\ ~\E c \in m.conns : c[1][1] = n

\* The upstream traversal of delete(inputConnectionsAndNodes=True): delete
\* the candidates that are left behind, then look at the nodes that fed
\* them, until a node that is not deleted is met.
RECURSIVE SweepUpstream(_, _)
SweepUpstream(m, candidates) ==
  LET gone == {n \in candidates : LeftBehind(m, n)}
      feeders == {c[1][1] : c \in {d \in m.conns : d[2][1] \in gone}} \ gone
  IN IF gone = {} THEN m
     ELSE SweepUpstream(WithoutNodes(m, gone), feeders)

\* cmds.delete(plug, inputConnectionsAndNodes=True): break the input
\* connection of the plug and delete the unconnected nodes left behind
cmds_delete_icn(m, n, a) ==
  LET m1 == Issue(m, "delete", n, a, <<"inputConnectionsAndNodes">>)
      incoming == {c \in m.conns : c[2] = <<n, a>>}
      m2 == [m1 EXCEPT !.conns = @ \ incoming]
  IN IF ~plugExists(m, n, a)
     THEN Raise(m1, "HostError")
     ELSE SweepUpstream(m2, {c[1][1] : c \in incoming})

\* cmds.xform(node, query=True, <what>=True, worldSpace=True)
cmds_xform_query(m, n, what) ==
  LET m1 == Issue(m, "xform", n, "", <<"query", what>>)
  IN IF ~objExists(m, n)
     THEN Raise(m1, "HostError")
     ELSE Return(m1, RetValue(m.xform[n][what]))

\* cmds.xform(node, <what>=value, absolute=True, worldSpace=True)
cmds_xform_set(m, n, what, v) ==
  LET m1 == Issue(m, "xform", n, "", <<"set", what>>)
  IN IF ~objExists(m, n)
     THEN Raise(m1, "HostError")
     ELSE [m1 EXCEPT !.xform[n][what] = v]

\* The order in which the host lists the user-defined attributes.
UserAttrSeq == <<"u1", "u2">>

\* cmds.listAttr(node, userDefined=True, settable=True)
listAttr_userDefined_settable(m, n) ==
  LET Listed(a) == /\ plugExists(m, n, a)
                   /\ m.plugs[<<n, a>>].userDefined
                   /\ getAttr_settable(m, n, a)
  IN SelectSeq(UserAttrSeq, Listed)

\* cmds.addAttr(plug, query=True, defaultValue=True)
addAttr_query_defaultValue(m, n, a) == m.plugs[<<n, a>>].default

\* cmds.attributeQuery(attr, node=node, listDefault=True)[0]
attributeQuery_listDefault(m, n, a) == m.plugs[<<n, a>>].default

\* The truth value Python gives a number.
Truthy(v) == v # 0

----------------------------------------------------------------------------
\* attribute_helper.py: the free functions.

Ok(m) == m.exc = "none"

B(b) == IF b THEN "T" ELSE "F"

is_attr(m, n, a) ==
  IF ~plugExists(m, n, a) THEN FALSE ELSE TRUE

set_attr(m, n, a, v) ==
  IF ~is_attr(m, n, a)
  THEN Raise(m, "ValueError")
  ELSE cmds_setAttr(m, n, a, v)

get_attr(m, n, a) ==
  IF ~is_attr(m, n, a)
  THEN Raise(m, "ValueError")
  ELSE cmds_getAttr(m, n, a)

add_attr(m, n, a, channel_box, kw) ==
  IF plugExists(m, n, a)
  THEN Raise(m, "ValueError")
  ELSE LET m1 == cmds_addAttr(m, n, a, kw)
       IN IF ~Ok(m1) THEN m1
          ELSE IF channel_box
          THEN cmds_setAttr_flags(m1, n, a, "-", "-", "T")
          ELSE m1

un_lock_attr(m, n, a) ==
  IF ~is_attr(m, n, a)
  THEN Raise(m, "ValueError")
  ELSE cmds_setAttr_flags(m, n, a, "F", "-", "-")

\* Mutant of delete_attr: unlocks, and never issues the delete.
delete_attr_never_deletes(m, n, a) ==
  IF ~is_attr(m, n, a)
  THEN Raise(m, "ValueError")
  ELSE un_lock_attr(m, n, a)

\* Mutant of delete_attr: deletes without unlocking first.
delete_attr_without_unlock(m, n, a) ==
  IF ~is_attr(m, n, a)
  THEN Raise(m, "ValueError")
  ELSE cmds_deleteAttr(m, n, a)

delete_attr(m, n, a) ==
  IF ~is_attr(m, n, a)
  THEN Raise(m, "ValueError")
  ELSE LET m1 == un_lock_attr(m, n, a)
       IN IF ~Ok(m1) THEN m1 ELSE cmds_deleteAttr(m1, n, a)

lock_attr(m, n, a) ==
  IF ~is_attr(m, n, a)
  THEN Raise(m, "ValueError")
  ELSE cmds_setAttr_flags(m, n, a, "T", "-", "-")

\* Mutant of toogle_lock_attr: the attribute is locked whatever its state.
toogle_lock_attr_always_locks(m, n, a) ==
  IF ~is_attr(m, n, a)
  THEN Raise(m, "ValueError")
  ELSE cmds_setAttr_flags(m, n, a, "T", "-", "-")

toogle_lock_attr(m, n, a) ==
  IF ~is_attr(m, n, a)
  THEN Raise(m, "ValueError")
  ELSE LET lock == getAttr_lock(m, n, a)
           lock_status == IF lock THEN FALSE ELSE TRUE
       IN cmds_setAttr_flags(m, n, a, B(lock_status), "-", "-")

hide_attr(m, n, a) ==
  IF ~is_attr(m, n, a)
  THEN Raise(m, "ValueError")
  ELSE cmds_setAttr_flags(m, n, a, "-", "F", "-")

un_hide_attr(m, n, a) ==
  IF ~is_attr(m, n, a)
  THEN Raise(m, "ValueError")
  ELSE cmds_setAttr_flags(m, n, a, "-", "T", "-")

lock_and_hide_attr(m, n, a) ==
  IF ~is_attr(m, n, a)
  THEN Raise(m, "ValueError")
  ELSE cmds_setAttr_flags(m, n, a, "T", "F", "-")

create_spacer(m, n, spacer) ==
  IF plugExists(m, n, spacer)
  THEN Raise(m, "ValueError")
  ELSE LET m1 == cmds_addAttr(m, n, spacer, Kwargs("enum", 0, FALSE, FALSE))
       IN IF ~Ok(m1) THEN m1
          ELSE cmds_setAttr_flags(m1, n, spacer, "T", "-", "T")

\* Mutant of delete_connection: deletes the inputs whether or not the plug is
\* read-only.
delete_connection_always_deletes(m, n, a) ==
  IF ~is_attr(m, n, a)
  THEN Raise(m, "ValueError")
  ELSE IF isDestination(m, n, a)
  THEN cmds_delete_icn(m, n, a)
  ELSE m

\* Mutant of delete_connection: only disconnects the source, whether or not
\* the plug is read-only.
delete_connection_always_disconnects(m, n, a) ==
  IF ~is_attr(m, n, a)
  THEN Raise(m, "ValueError")
  ELSE IF isDestination(m, n, a)
  THEN cmds_disconnectAttr(m, sourceFromDestination(m, n, a), <<n, a>>)
  ELSE m

delete_connection(m, n, a) ==
  IF ~is_attr(m, n, a)
  THEN Raise(m, "ValueError")
  ELSE IF isDestination(m, n, a)
  THEN LET plug == <<n, a>>
           read_only == ls_readOnly(m, plug[1], plug[2])
       IN IF read_only
          THEN LET source == sourceFromDestination(m, plug[1], plug[2])
               IN cmds_disconnectAttr(m, source, plug)
          ELSE cmds_delete_icn(m, plug[1], plug[2])
  ELSE m

\* Mutant of toogle_reference_display: the display type is the one of the
\* state before the toggle.
toogle_reference_display_swaps_type(m, node) ==
  IF ~objExists(m, node)
  THEN Raise(m, "ValueError")
  ELSE LET m1 == cmds_getAttr(m, node, "overrideEnabled")
           override_enabled == m1.ret.val
           override_type == IF override_enabled THEN 2 ELSE 0
           m2 == IF ~Ok(m1) THEN m1
                 ELSE cmds_setAttr(m1, node, "overrideEnabled", ~override_enabled)
           m3 == IF ~Ok(m2) THEN m2
                 ELSE cmds_setAttr(m2, node, "overrideDisplayType", override_type)
       IN IF ~Ok(m3) THEN m3 ELSE Return(m3, NoRet)

toogle_reference_display(m, node) ==
  IF ~objExists(m, node)
  THEN Raise(m, "ValueError")
  ELSE LET m1 == cmds_getAttr(m, node, "overrideEnabled")
           override_enabled == m1.ret.val
           override_type == IF override_enabled THEN 0 ELSE 2
           m2 == IF ~Ok(m1) THEN m1
                 ELSE cmds_setAttr(m1, node, "overrideEnabled", ~override_enabled)
           m3 == IF ~Ok(m2) THEN m2
                 ELSE cmds_setAttr(m2, node, "overrideDisplayType", override_type)
       IN IF ~Ok(m3) THEN m3 ELSE Return(m3, NoRet)

\* The channels in the order the loops visit them.
TranslateSeq == <<"translateX", "translateY", "translateZ">>
RotateSeq == <<"rotateX", "rotateY", "rotateZ">>
ScaleSeq == <<"scaleX", "scaleY", "scaleZ">>
ChannelSeq == TranslateSeq \o RotateSeq \o ScaleSeq

\* for ...: cmds.connectAttr(source.channel, target.channel, force=force)
RECURSIVE connect_each(_, _, _, _, _)
connect_each(m, source, target, chans, force) ==
  IF chans = <<>> \/ ~Ok(m) THEN m
  ELSE connect_each(
         cmds_connectAttr(m, source, Head(chans), target, Head(chans), force),
         source, target, Tail(chans), force)

connect_trs(m, source, target, force) ==
  connect_each(m, source, target, ChannelSeq, force)

connect_translate(m, source, target, force) ==
  connect_each(m, source, target, TranslateSeq, force)

connect_rotate(m, source, target, force) ==
  connect_each(m, source, target, RotateSeq, force)

connect_scale(m, source, target, force) ==
  connect_each(m, source, target, ScaleSeq, force)

\* Mutant of reset_channels: every settable channel is set to 0, the scale
\* channels too.
RECURSIVE reset_channels_zeroes_scale(_, _, _)
reset_channels_zeroes_scale(m, node, chans) ==
  IF chans = <<>> \/ ~Ok(m) THEN m
  ELSE LET ch == Head(chans)
           m1 == IF ~plugExists(m, node, ch)
                 THEN Raise(Issue(m, "getAttr", node, ch, <<"settable">>), "HostError")
                 ELSE IF getAttr_settable(m, node, ch)
                 THEN cmds_setAttr(m, node, ch, 0)
                 ELSE m
       IN reset_channels_zeroes_scale(m1, node, Tail(chans))

\* The first loop of reset_default_values: the settable transform channels
\* are set to 1 (scale) or 0.
RECURSIVE reset_channels(_, _, _)
reset_channels(m, node, chans) ==
  IF chans = <<>> \/ ~Ok(m) THEN m
  ELSE LET ch == Head(chans)
           m1 == IF ~plugExists(m, node, ch)
                 THEN Raise(Issue(m, "getAttr", node, ch, <<"settable">>), "HostError")
                 ELSE IF getAttr_settable(m, node, ch)
                 THEN IF ch \in ScaleChannels
                      THEN cmds_setAttr(m, node, ch, 1)
                      ELSE cmds_setAttr(m, node, ch, 0)
                 ELSE m
       IN reset_channels(m1, node, Tail(chans))

\* Mutant of reset_user_attrs: skips message attributes only.
RECURSIVE reset_user_attrs_sets_strings(_, _, _)
reset_user_attrs_sets_strings(m, node, attrs) ==
  IF attrs = <<>> \/ ~Ok(m) THEN m
  ELSE LET attr == Head(attrs)
           m1 == IF getAttr_type(m, node, attr) # "message"
                 THEN LET default_value == addAttr_query_defaultValue(m, node, attr)
                      IN IF Truthy(default_value)
                         THEN cmds_setAttr(m, node, attr, default_value)
                         ELSE m
                 ELSE m
       IN reset_user_attrs_sets_strings(m1, node, Tail(attrs))

\* The second loop of reset_default_values, over the listed user-defined
\* attributes.
RECURSIVE reset_user_attrs(_, _, _)
reset_user_attrs(m, node, attrs) ==
  IF attrs = <<>> \/ ~Ok(m) THEN m
  ELSE LET attr == Head(attrs)
           m1 == IF getAttr_type(m, node, attr) # "message"
                 THEN IF getAttr_type(m, node, attr) # "string"
                      THEN LET default_value == addAttr_query_defaultValue(m, node, attr)
                           IN IF Truthy(default_value)
                              THEN cmds_setAttr(m, node, attr, default_value)
                              ELSE m
                      ELSE m
                 ELSE m
       IN reset_user_attrs(m1, node, Tail(attrs))

reset_default_values(m, node) ==
  IF ~objExists(m, node)
  THEN Raise(m, "ValueError")
  ELSE LET m1 == reset_channels(m, node, ChannelSeq)
       IN IF ~Ok(m1) THEN m1
          ELSE LET user_define_attrs == listAttr_userDefined_settable(m1, node)
               IN IF user_define_attrs # <<>>
                  THEN reset_user_attrs(m1, node, user_define_attrs)
                  ELSE m1

----------------------------------------------------------------------------
\* matrix_helper.py.

check_node_exists(m, node) ==
  IF ~objExists(m, node) THEN Raise(m, "ValueError") ELSE m

get_position(m, node) ==
  LET m1 == check_node_exists(m, node)
  IN IF ~Ok(m1) THEN m1 ELSE cmds_xform_query(m1, node, "pos")

get_rotation(m, node) ==
  LET m1 == check_node_exists(m, node)
  IN IF ~Ok(m1) THEN m1 ELSE cmds_xform_query(m1, node, "rot")

get_scale(m, node) ==
  LET m1 == check_node_exists(m, node)
  IN IF ~Ok(m1) THEN m1 ELSE cmds_xform_query(m1, node, "scl")

set_position(m, node, position) ==
  LET m1 == check_node_exists(m, node)
  IN IF ~Ok(m1) THEN m1 ELSE cmds_xform_set(m1, node, "pos", position)

set_rotation(m, node, rotation) ==
  LET m1 == check_node_exists(m, node)
  IN IF ~Ok(m1) THEN m1 ELSE cmds_xform_set(m1, node, "rot", rotation)

set_scale(m, node, scale) ==
  LET m1 == check_node_exists(m, node)
  IN IF ~Ok(m1) THEN m1 ELSE cmds_xform_set(m1, node, "scl", scale)

\* if pos: target_pos = get_position(source); set_position(target, target_pos)
place_position(m, source, target) ==
  LET m1 == get_position(m, source)
  IN IF ~Ok(m1) THEN m1 ELSE set_position(m1, target, m1.ret.val)

place_rotation(m, source, target) ==
  LET m1 == get_rotation(m, source)
  IN IF ~Ok(m1) THEN m1 ELSE set_rotation(m1, target, m1.ret.val)

place_scale(m, source, target) ==
  LET m1 == get_scale(m, source)
  IN IF ~Ok(m1) THEN m1 ELSE set_scale(m1, target, m1.ret.val)

\* Mutant of put_in_place: the rotation is copied whatever rot says.
put_in_place_ignores_rot(m, source, target, pos, rot, scl) ==
  LET m1 == check_node_exists(m, source)
      m2 == IF ~Ok(m1) THEN m1 ELSE check_node_exists(m1, target)
      m3 == IF Ok(m2) /\ pos THEN place_position(m2, source, target) ELSE m2
      m4 == IF Ok(m3) THEN place_rotation(m3, source, target) ELSE m3
      m5 == IF Ok(m4) /\ scl THEN place_scale(m4, source, target) ELSE m4
  IN IF ~Ok(m5) THEN m5 ELSE Return(m5, NoRet)

put_in_place(m, source, target, pos, rot, scl) ==
  LET m1 == check_node_exists(m, source)
      m2 == IF ~Ok(m1) THEN m1 ELSE check_node_exists(m1, target)
      m3 == IF Ok(m2) /\ pos THEN place_position(m2, source, target) ELSE m2
      m4 == IF Ok(m3) /\ rot THEN place_rotation(m3, source, target) ELSE m3
      m5 == IF Ok(m4) /\ scl THEN place_scale(m4, source, target) ELSE m4
  IN IF ~Ok(m5) THEN m5 ELSE Return(m5, NoRet)

\* A matrix is a 2 by 2 matrix <<a, b, c, d>> (rows a b and c d) with
\* entries in Values; arithmetic wraps around above MaxVal.
Matrices == Values \X Values \X Values \X Values

Wrap(x) == x % (MaxVal + 1)

IDENTITY_MATRIX == <<1, 0, 0, 1>>

\* OpenMaya.MMatrix.__mul__
MMatrix_mul(a, b) ==
  <<Wrap(a[1] * b[1] + a[2] * b[3]), Wrap(a[1] * b[2] + a[2] * b[4]),
    Wrap(a[3] * b[1] + a[4] * b[3]), Wrap(a[3] * b[2] + a[4] * b[4])>>

\* cmds.about(version=True): the version string, as its numbers between the
\* dots
cmds_about_version(m, version) ==
  Return(Issue(m, "about", "", "", <<"version">>), RetValue(version))

\* int(version.split('.')[0])
MajorVersion(version) == Head(version)

\* Lines 246-250 of bake_transform_to_offset_parent_matrix: the local
\* matrix is reset and the baked matrix written.
bake_write(m, node, baked_matrix) ==
  LET m1 == cmds_xform_set(m, node, "local", IDENTITY_MATRIX)
      m2 == IF ~Ok(m1) THEN m1
            ELSE cmds_setAttr(m1, node, "offsetParentMatrix", baked_matrix)
  IN IF ~Ok(m2) THEN m2 ELSE Return(m2, NoRet)

\* Mutant of bake_matrices: the product is taken in the other order.
bake_matrices_reversed(m, node) ==
  LET m1 == cmds_xform_query(m, node, "local")
      local_matrix == m1.ret.val
      m2 == IF ~Ok(m1) THEN m1 ELSE cmds_getAttr(m1, node, "offsetParentMatrix")
      offset_parent_matrix == m2.ret.val
      baked_matrix == MMatrix_mul(offset_parent_matrix, local_matrix)
  IN IF ~Ok(m2) THEN m2 ELSE bake_write(m2, node, baked_matrix)

\* Lines 240-244: the two matrices are read and multiplied.
bake_matrices(m, node) ==
  LET m1 == cmds_xform_query(m, node, "local")
      local_matrix == m1.ret.val
      m2 == IF ~Ok(m1) THEN m1 ELSE cmds_getAttr(m1, node, "offsetParentMatrix")
      offset_parent_matrix == m2.ret.val
      baked_matrix == MMatrix_mul(local_matrix, offset_parent_matrix)
  IN IF ~Ok(m2) THEN m2 ELSE bake_write(m2, node, baked_matrix)

\* Mutant of bake_transform_to_offset_parent_matrix: the node is checked
\* before the version.
bake_checks_node_first(m, node, version) ==
  LET m1 == check_node_exists(m, node)
      m2 == IF ~Ok(m1) THEN m1 ELSE cmds_about_version(m1, version)
  IN IF ~Ok(m2) THEN m2
     ELSE IF ~(MajorVersion(m2.ret.val) >= 2020)
     THEN Raise(m2, "Exception")
     ELSE bake_matrices(m2, node)

bake_transform_to_offset_parent_matrix(m, node, version) ==
  LET m1 == cmds_about_version(m, version)
  IN IF ~(MajorVersion(m1.ret.val) >= 2020)
     THEN Raise(m1, "Exception")
     ELSE LET m2 == check_node_exists(m1, node)
          IN IF ~Ok(m2) THEN m2 ELSE bake_matrices(m2, node)

----------------------------------------------------------------------------
\* curve_helper.py.  A node of a scene with curves also carries its shape
\* children (shapes), and a curve shape its number of CVs and its length.

\* cmds.objectType(node) and cmds.nodeType(node)
cmds_objectType(m, n) == m.nodes[n].type

\* cmds.listRelatives(node, shapes=True): the shape children, and None (the
\* empty sequence here) when the node has none
cmds_listRelatives_shapes(m, n) == m.nodes[n].shapes

\* Python's None[0]
NoneSubscript(m) == Raise(m, "TypeError")

node_exists(m, node) ==
  IF ~objExists(m, node) THEN Raise(m, "ValueError") ELSE m

is_nurbs_curve(m, crv) ==
  LET m1 == node_exists(m, crv)
  IN IF ~Ok(m1) THEN m1
     ELSE IF cmds_objectType(m1, crv) # "nurbsCurve"
     THEN Return(m1, RetFalse)
     ELSE Return(m1, RetTrue)

\* crv = node; if not is_nurbs_curve(crv): crv = listRelatives(node,
\* shapes=True)[0]; if not is_nurbs_curve(crv): raise ValueError.
\* The resolved shape is the value returned.
resolve_curve(m, node) ==
  LET r1 == is_nurbs_curve(m, node)
  IN IF ~Ok(r1) THEN r1
     ELSE IF r1.ret = RetTrue THEN Return(r1, RetValue(node))
     ELSE LET m1 == Issue(r1, "listRelatives", node, "", <<"shapes">>)
              shapes == cmds_listRelatives_shapes(m1, node)
          IN IF shapes = <<>> THEN NoneSubscript(m1)
             ELSE LET crv == shapes[1]
                      r2 == is_nurbs_curve(m1, crv)
                  IN IF ~Ok(r2) THEN r2
                     ELSE IF r2.ret # RetTrue THEN Raise(r2, "ValueError")
                     ELSE Return(r2, RetValue(crv))

get_cvs_number(m, node) ==
  LET m1 == node_exists(m, node)
      m2 == IF ~Ok(m1) THEN m1 ELSE resolve_curve(m1, node)
  IN IF ~Ok(m2) THEN m2
     ELSE LET crv == m2.ret.val
          IN Return(Issue(m2, "getAttr", crv, "cp", <<"size">>),
                    RetValue(m2.nodes[crv].cvs))

get_curve_length(m, node) ==
  LET m1 == node_exists(m, node)
      m2 == IF ~Ok(m1) THEN m1 ELSE resolve_curve(m1, node)
  IN IF ~Ok(m2) THEN m2
     ELSE LET crv == m2.ret.val
          IN Return(Issue(m2, "arclen", crv, "", <<>>),
                    RetValue(m2.nodes[crv].length))

\* cmds.select(shape); cmds.nurbsCurveToBezier()
cmds_nurbsCurveToBezier(m, shape) ==
  LET m1 == Issue(Issue(m, "select", shape, "", <<>>),
                  "nurbsCurveToBezier", shape, "", <<>>)
  IN [m1 EXCEPT !.nodes[shape].type = "bezierCurve"]

convert_to_bezier(m, node) ==
  LET m1 == node_exists(m, node)
  IN IF ~Ok(m1) THEN m1
     ELSE LET m2 == Issue(m1, "listRelatives", node, "", <<"shapes">>)
              shapes == cmds_listRelatives_shapes(m2, node)
          IN IF shapes = <<>> THEN NoneSubscript(m2)
             ELSE LET shape == shapes[1]
                  IN IF cmds_objectType(m2, shape) = "bezierCurve"
                     THEN Return(m2, NoRet)
                     ELSE IF cmds_objectType(m2, shape) = "nurbsCurve"
                     THEN Return(cmds_nurbsCurveToBezier(m2, shape), NoRet)
                     ELSE Return(m2, NoRet)

\* The names the host gives the nearestPointOnCurve nodes it creates.
NpcNames == <<"nearestPointOnCurve1", "nearestPointOnCurve2">>

NpcFree(m) == {i \in 1..Len(NpcNames) : NpcNames[i] \notin DOMAIN m.nodes}

CanCreateNpc(m) == NpcFree(m) # {}

NpcPlugNames == {"inputCurve", "inPosition", "position", "parameter"}

\* cmds.createNode('nearestPointOnCurve'): a new node under the first name
\* that is free
cmds_createNode_npc(m) ==
  LET i == CHOOSE k \in NpcFree(m) : \A j \in NpcFree(m) : k <= j
      name == NpcNames[i]
      m1 == Issue(m, "createNode", name, "", <<"nearestPointOnCurve">>)
      node == [type |-> "nearestPointOnCurve", readOnly |-> FALSE,
               shapes |-> <<>>, cvs |-> 0, length |-> 0]
      plug == [type |-> "double", locked |-> FALSE, keyable |-> FALSE,
               channelBox |-> FALSE, value |-> 0, default |-> 0,
               userDefined |-> FALSE]
  IN Return([m1 EXCEPT
               !.nodes = [n \in (DOMAIN m.nodes) \cup {name} |->
                            IF n = name THEN node ELSE m.nodes[n]],
               !.plugs = [q \in (DOMAIN m.plugs) \cup ({name} \X NpcPlugNames) |->
                            IF q[1] = name THEN plug ELSE m.plugs[q]]],
            RetValue(name))

\* cmds.delete(node)
cmds_delete(m, n) ==
  LET m1 == Issue(m, "delete", n, "", <<>>)
  IN IF ~objExists(m, n) THEN Raise(m1, "HostError") ELSE WithoutNodes(m1, {n})

\* The point of a curve of the given length nearest to a position, and its
\* parameter, as the nearestPointOnCurve node computes them.
NearestOnCurve(length, p) ==
  LET q == IF p > length THEN length ELSE p
  IN [position |-> q, parameter |-> q]

\* The steps of get_nearest_point_on_curve on the temporary node that the
\* host may reject.
NpcSteps == {"connectAttr", "setAttr", "getAttr_position", "getAttr_parameter"}

\* A host command on the temporary node: rejected when it is the one the
\* host fails in this call.
NpcStep(m, step, fault, cmd, n, a, done) ==
  IF ~Ok(m) THEN m
  ELSE IF fault = step THEN Raise(Issue(m, cmd, n, a, <<step>>), "HostError")
  ELSE done

\* Lines 187-200 of get_nearest_point_on_curve, with the curve resolved.
nearest_with_temp_node(m, crv, source, world_space, fault) ==
  LET m1 == Issue(m, "xform", source, "", <<"query", "pos", B(world_space)>>)
      source_pos == m1.xform[source].pos
      m2 == cmds_createNode_npc(m1)
      temp_npc == m2.ret.val
      m3 == NpcStep(m2, "connectAttr", fault, "connectAttr", temp_npc, "inputCurve",
                    cmds_connectAttr(m2, crv, "worldSpace", temp_npc, "inputCurve", FALSE))
      m4 == NpcStep(m3, "setAttr", fault, "setAttr", temp_npc, "inPosition",
                    cmds_setAttr(m3, temp_npc, "inPosition", source_pos))
      m5 == NpcStep(m4, "getAttr_position", fault, "getAttr", temp_npc, "position",
                    Issue(m4, "getAttr", temp_npc, "position", <<"value">>))
      m6 == NpcStep(m5, "getAttr_parameter", fault, "getAttr", temp_npc, "parameter",
                    Issue(m5, "getAttr", temp_npc, "parameter", <<"value">>))
      m7 == IF ~Ok(m6) THEN m6 ELSE cmds_delete(m6, temp_npc)
  IN IF ~Ok(m7) THEN m7
     ELSE Return(m7, RetValue(NearestOnCurve(m7.nodes[crv].length, source_pos)))

get_nearest_point_on_curve(m, node, source, world_space, fault) ==
  LET m1 == node_exists(m, node)
      m2 == IF ~Ok(m1) THEN m1 ELSE node_exists(m1, source)
      m3 == IF ~Ok(m2) THEN m2 ELSE resolve_curve(m2, node)
  IN IF ~Ok(m3) THEN m3
     ELSE nearest_with_temp_node(m3, m3.ret.val, source, world_space, fault)

----------------------------------------------------------------------------
\* attributes/lib.py: class AttributeHelper.  obj is self.obj.

RetName == [kind |-> "name", val |-> 0]

attribute_exists(m, obj, a) ==
  IF plugExists(m, obj, a) THEN TRUE ELSE FALSE

is_attribute_locked(m, obj, a) ==
  IF ~attribute_exists(m, obj, a)
  THEN FALSE
  ELSE getAttr_lock(m, obj, a)

is_attribute_settable(m, obj, a) ==
  IF ~attribute_exists(m, obj, a)
  THEN FALSE
  ELSE getAttr_settable(m, obj, a)

set_reference_display(m, obj, enabled) ==
  LET override_type == IF enabled THEN 2 ELSE 0
      m1 == cmds_setAttr(m, obj, "overrideEnabled", enabled)
      m2 == IF ~Ok(m1) THEN m1
            ELSE cmds_setAttr(m1, obj, "overrideDisplayType", override_type)
  IN IF ~Ok(m2) THEN m2 ELSE Return(m2, NoRet)

\* cmds.listConnections(plug, destination=False): the nodes that feed the
\* attribute, and None (the empty sequence here) when nothing does
listConnections_sources(m, n, a) ==
  IF isDestination(m, n, a)
  THEN <<sourceFromDestination(m, n, a)[1]>>
  ELSE <<>>

\* The node types whose name starts with 'animCurve'.
AnimCurveTypes == {"animCurveUL", "animCurveUA", "animCurveTL", "animCurveTA"}

\* cmds.nodeType(node).startswith('animCurve')
startswith_animCurve(type) == type \in AnimCurveTypes

is_attribute_connected(m, obj, a) ==
  IF ~attribute_exists(m, obj, a)
  THEN Return(m, RetFalse)
  ELSE IF is_attribute_locked(m, obj, a)
  THEN Return(m, RetFalse)
  ELSE Return(Issue(m, "listConnections", obj, a, <<"sources">>),
              IF listConnections_sources(m, obj, a) # <<>> THEN RetTrue ELSE RetFalse)

is_attribute_animated(m, obj, a) ==
  LET m1 == is_attribute_connected(m, obj, a)
  IN IF m1.ret # RetTrue
     THEN Return(m1, RetFalse)
     ELSE LET m2 == Issue(m1, "listConnections", obj, a, <<"sources">>)
              connected_node == listConnections_sources(m2, obj, a)[1]
          IN IF ~startswith_animCurve(cmds_objectType(m2, connected_node))
             THEN Return(m2, RetFalse)
             ELSE Return(m2, RetTrue)

set_attribute_value(m, obj, a, v) ==
  IF ~attribute_exists(m, obj, a)
  THEN Return(m, RetFalse)
  ELSE cmds_setAttr(m, obj, a, v)

get_attribute_value(m, obj, a) ==
  IF ~attribute_exists(m, obj, a)
  THEN Return(m, NoRet)
  ELSE cmds_getAttr(m, obj, a)

set_attribute_keyable(m, obj, a, keyable) ==
  IF attribute_exists(m, obj, a)
  THEN Return(m, RetFalse)
  ELSE cmds_setAttr_flags(m, obj, a, "-", B(keyable), B(~keyable))

lock_attribute(m, obj, a, lock) ==
  IF ~attribute_exists(m, obj, a)
  THEN Return(m, RetFalse)
  ELSE cmds_setAttr_flags(m, obj, a, B(lock), "-", "-")

hide_attribute(m, obj, a, hide) ==
  IF ~attribute_exists(m, obj, a)
  THEN Return(m, NoRet)
  ELSE cmds_setAttr_flags(m, obj, a, "-", B(~hide), B(~hide))

lock_and_hide_attribute(m, obj, a, lock, hide) ==
  LET m1 == lock_attribute(m, obj, a, lock)
  IN IF ~Ok(m1) THEN m1
     ELSE LET m2 == hide_attribute(m1, obj, a, hide)
          IN IF ~Ok(m2) THEN m2 ELSE Return(m2, NoRet)

add_attribute(m, obj, a, kw) ==
  IF attribute_exists(m, obj, a)
  THEN Raise(m, "RuntimeError")
  ELSE LET m1 == cmds_addAttr(m, obj, a, kw)
       IN IF ~Ok(m1) THEN m1 ELSE Return(m1, RetName)

add_separator_attribute(m, obj, a) ==
  LET m1 == add_attribute(m, obj, a, Kwargs("enum", 0, FALSE, TRUE))
  IN IF ~Ok(m1) THEN m1
     ELSE LET m2 == set_attribute_keyable(m1, obj, a, FALSE)
          IN IF ~Ok(m2) THEN m2
             ELSE LET m3 == lock_attribute(m2, obj, a, TRUE)
                  IN IF ~Ok(m3) THEN m3 ELSE Return(m3, RetName)

add_float_attribute(m, obj, a, kw) ==
  add_attribute(m, obj, a, [kw EXCEPT !.type = "float"])

add_int_attribute(m, obj, a, kw) ==
  add_attribute(m, obj, a, [kw EXCEPT !.type = "long"])

add_bool_attribute(m, obj, a, kw) ==
  add_attribute(m, obj, a, [kw EXCEPT !.type = "bool"])

add_enum_attribute(m, obj, a, keyable, kw) ==
  add_attribute(m, obj, a, [kw EXCEPT !.type = "enum", !.keyable = keyable])

add_matrix_attribute(m, obj, a, kw) ==
  add_attribute(m, obj, a, [kw EXCEPT !.type = "matrix"])

add_string_attribute(m, obj, a, text) ==
  LET m1 == add_attribute(m, obj, a, Kwargs("string", 0, FALSE, FALSE))
  IN IF ~Ok(m1) THEN m1
     ELSE LET m2 == cmds_setAttr(m1, obj, a, text)
          IN IF ~Ok(m2) THEN m2 ELSE Return(m2, RetName)

add_proxy_attribute(m, obj, a, pn, pa) ==
  LET m1 == cmds_addAttr_proxy(m, obj, a, pn, pa)
  IN IF ~Ok(m1) THEN m1 ELSE Return(m1, RetName)

delete_attribute(m, obj, a) ==
  IF ~attribute_exists(m, obj, a)
  THEN Raise(m, "RuntimeError")
  ELSE LET m1 == lock_attribute(m, obj, a, FALSE)
       IN IF ~Ok(m1) THEN m1
          ELSE LET m2 == cmds_deleteAttr(m1, obj, a)
               IN IF ~Ok(m2) THEN m2 ELSE Return(m2, NoRet)

get_user_define_attributes(m, obj) ==
  listAttr_userDefined_settable(m, obj)

\* Mutant of get_default_value_attribute: the type of the attribute is not
\* looked at.
get_default_value_attribute_any_type(m, obj, a) ==
  IF ~attribute_exists(m, obj, a)
  THEN Return(m, NoRet)
  ELSE Return(Issue(m, "attributeQuery", obj, a, <<"listDefault">>),
              RetValue(attributeQuery_listDefault(m, obj, a)))

get_default_value_attribute(m, obj, a) ==
  IF ~attribute_exists(m, obj, a)
  THEN Return(m, NoRet)
  ELSE IF getAttr_type(m, obj, a) = "message"
  THEN Raise(m, "ValueError")
  ELSE IF getAttr_type(m, obj, a) = "string"
  THEN Raise(m, "ValueError")
  ELSE Return(Issue(m, "attributeQuery", obj, a, <<"listDefault">>),
              RetValue(attributeQuery_listDefault(m, obj, a)))

\* cmds.setAttr(plug, self.get_default_value_attribute(attr)): the default
\* is asked for first, the set command issued when that returns
set_to_default(m, obj, attr) ==
  LET m1 == get_default_value_attribute(m, obj, attr)
  IN IF ~Ok(m1) THEN m1
     ELSE Return(cmds_setAttr(m1, obj, attr, m1.ret.val), NoRet)

\* The loop of set_user_define_attributes_default_values.
RECURSIVE set_user_defaults(_, _, _)
set_user_defaults(m, obj, attrs) ==
  IF attrs = <<>> \/ ~Ok(m) THEN m
  ELSE LET attr == Head(attrs)
           m1 == IF getAttr_type(m, obj, attr) = "message" THEN m
                 ELSE IF getAttr_type(m, obj, attr) = "string" THEN m
                 ELSE IF is_attribute_settable(m, obj, attr)
                 THEN set_to_default(m, obj, attr)
                 ELSE m
       IN set_user_defaults(m1, obj, Tail(attrs))

\* cmds.listAttr(obj, keyable=True): the keyable attributes, the built-in
\* channels first, and None (the empty sequence here) when there is none
listAttr_keyable(m, n) ==
  LET Listed(a) == plugExists(m, n, a) /\ m.plugs[<<n, a>>].keyable
  IN SelectSeq(ChannelSeq \o UserAttrSeq, Listed)

get_keyable_attributes(m, obj) == listAttr_keyable(m, obj)

\* The loop of set_attributes_default_values.
RECURSIVE set_defaults_each(_, _, _)
set_defaults_each(m, obj, attrs) ==
  IF attrs = <<>> \/ ~Ok(m) THEN m
  ELSE LET attr == Head(attrs)
           m1 == IF is_attribute_settable(m, obj, attr)
                 THEN set_to_default(m, obj, attr)
                 ELSE m
       IN set_defaults_each(m1, obj, Tail(attrs))

\* attribute_list = <<>> stands for no list given; iterating over the None
\* that get_keyable_attributes may return is a TypeError.
set_attributes_default_values(m, obj, attribute_list) ==
  LET attrs == IF attribute_list = <<>>
               THEN get_keyable_attributes(m, obj)
               ELSE attribute_list
  IN IF attrs = <<>> THEN Raise(m, "TypeError")
     ELSE set_defaults_each(m, obj, attrs)

set_user_define_attributes_default_values(m, obj) ==
  IF get_user_define_attributes(m, obj) = <<>>
  THEN m
  ELSE set_user_defaults(m, obj, get_user_define_attributes(m, obj))

----------------------------------------------------------------------------
\* attributes/lib.py: the connection functions of the module.

\* for ...: connect the channel unless it is locked on the target (and, with
\* check_source, on the source)
RECURSIVE lib_connect_each(_, _, _, _, _, _)
lib_connect_each(m, source, target, chans, force, check_source) ==
  IF chans = <<>> \/ ~Ok(m) THEN m
  ELSE LET ch == Head(chans)
           skip == \/ (check_source /\ is_attribute_locked(m, source, ch))
                   \/ is_attribute_locked(m, target, ch)
           m1 == IF skip THEN m
                 ELSE cmds_connectAttr(m, source, ch, target, ch, force)
       IN lib_connect_each(m1, source, target, Tail(chans), force, check_source)

\* Mutant of lib_connect_trs: the lock of the source channel is not looked
\* at.
lib_connect_trs_ignores_source_lock(m, source, target, force) ==
  lib_connect_each(m, source, target, ChannelSeq, force, FALSE)

lib_connect_trs(m, source, target, force) ==
  lib_connect_each(m, source, target, ChannelSeq, force, TRUE)

lib_connect_translate(m, source, target, force) ==
  lib_connect_each(m, source, target, TranslateSeq, force, FALSE)

lib_connect_rotate(m, source, target, force) ==
  lib_connect_each(m, source, target, RotateSeq, force, FALSE)

lib_connect_scale(m, source, target, force) ==
  lib_connect_each(m, source, target, ScaleSeq, force, FALSE)

lib_delete_connection(m, n, a) ==
  IF ~attribute_exists(m, n, a)
  THEN Raise(m, "RuntimeError")
  ELSE IF isDestination(m, n, a)
  THEN LET plug == <<n, a>>
           read_only == ls_readOnly(m, plug[1], plug[2])
       IN IF read_only
          THEN LET source == sourceFromDestination(m, plug[1], plug[2])
               IN cmds_disconnectAttr(m, source, plug)
          ELSE cmds_delete_icn(m, plug[1], plug[2])
  ELSE m

----------------------------------------------------------------------------
\* Running a call: the action of a helper starts it on the current scene and
\* commits the machine it ends in.

AddOps ==
  {"add_attr", "create_spacer", "add_attribute", "add_separator_attribute",
   "add_float_attribute", "add_int_attribute", "add_bool_attribute",
   "add_enum_attribute", "add_matrix_attribute", "add_string_attribute",
   "add_proxy_attribute"}

DeleteOps == {"delete_attr", "delete_attribute"}

LastOp(p) == IF p \in DOMAIN last THEN last[p] ELSE "none"

SetLast(p, what) ==
  [q \in (DOMAIN last) \cup {p} |-> IF q = p THEN what ELSE last[q]]

Commit(op, n, a, other, v, m) ==
  /\ nodes' = m.nodes
  /\ plugs' = m.plugs
  /\ conns' = m.conns
  /\ xform' = m.xform
  /\ log' = m.log
  /\ call' = [op |-> op, node |-> n, attr |-> a, other |-> other, val |-> v,
              exc |-> m.exc, ret |-> m.ret]
  /\ pre' = CurrentScene
  /\ last' = IF Ok(m) /\ op \in AddOps THEN SetLast(<<n, a>>, "add")
             ELSE IF Ok(m) /\ op \in DeleteOps THEN SetLast(<<n, a>>, "delete")
             ELSE last

\* The nodes a free function may be called with: every node of the scene and
\* a name that is not in it.
Targets == (DOMAIN nodes) \cup {Ghost}

\* The objects an AttributeHelper is built over.
Objs == DOMAIN nodes

NoCall ==
  [op |-> "none", node |-> Ghost, attr |-> "", other |-> <<>>, val |-> 0,
   exc |-> "none", ret |-> NoRet]

Transform == [type |-> "transform", readOnly |-> FALSE]

Origin == [pos |-> 0, rot |-> 0, scl |-> 0]

EmptyPlugs == [p \in {} |-> 0]

\* The keyword arguments the lifecycle calls pass to addAttr.
PlainKw == Kwargs("double", 0, TRUE, FALSE)

Call_add_attr ==
  \E n \in Targets, a \in UserAttrs, channel_box \in BOOLEAN :
    Commit("add_attr", n, a, <<>>, 0, add_attr(Start, n, a, channel_box, PlainKw))

Call_create_spacer ==
  \E n \in Targets, a \in UserAttrs :
    Commit("create_spacer", n, a, <<>>, 0, create_spacer(Start, n, a))

Call_delete_attr ==
  \E n \in Targets, a \in UserAttrs :
    Commit("delete_attr", n, a, <<>>, 0, delete_attr(Start, n, a))

Call_lock_attr ==
  \E n \in Targets, a \in UserAttrs :
    Commit("lock_attr", n, a, <<>>, 0, lock_attr(Start, n, a))

Call_un_lock_attr ==
  \E n \in Targets, a \in UserAttrs :
    Commit("un_lock_attr", n, a, <<>>, 0, un_lock_attr(Start, n, a))

Call_add_attribute ==
  \E obj \in Objs, a \in UserAttrs :
    Commit("add_attribute", obj, a, <<>>, 0, add_attribute(Start, obj, a, PlainKw))

Call_add_separator_attribute ==
  \E obj \in Objs, a \in UserAttrs :
    Commit("add_separator_attribute", obj, a, <<>>, 0,
           add_separator_attribute(Start, obj, a))

Call_add_float_attribute ==
  \E obj \in Objs, a \in UserAttrs :
    Commit("add_float_attribute", obj, a, <<>>, 0,
           add_float_attribute(Start, obj, a, PlainKw))

Call_add_int_attribute ==
  \E obj \in Objs, a \in UserAttrs :
    Commit("add_int_attribute", obj, a, <<>>, 0,
           add_int_attribute(Start, obj, a, PlainKw))

Call_add_bool_attribute ==
  \E obj \in Objs, a \in UserAttrs :
    Commit("add_bool_attribute", obj, a, <<>>, 0,
           add_bool_attribute(Start, obj, a, PlainKw))

Call_add_enum_attribute ==
  \E obj \in Objs, a \in UserAttrs :
    Commit("add_enum_attribute", obj, a, <<>>, 0,
           add_enum_attribute(Start, obj, a, TRUE, PlainKw))

Call_add_matrix_attribute ==
  \E obj \in Objs, a \in UserAttrs :
    Commit("add_matrix_attribute", obj, a, <<>>, 0,
           add_matrix_attribute(Start, obj, a, PlainKw))

Call_add_string_attribute ==
  \E obj \in Objs, a \in UserAttrs, text \in Values :
    Commit("add_string_attribute", obj, a, <<>>, text,
           add_string_attribute(Start, obj, a, text))

Call_add_proxy_attribute ==
  \E obj \in Objs, a \in UserAttrs, pn \in Objs, pa \in UserAttrs :
    Commit("add_proxy_attribute", obj, a, <<pn, pa>>, 0,
           add_proxy_attribute(Start, obj, a, pn, pa))

Call_delete_attribute ==
  \E obj \in Objs, a \in UserAttrs :
    Commit("delete_attribute", obj, a, <<>>, 0, delete_attribute(Start, obj, a))

Call_lock_attribute ==
  \E obj \in Objs, a \in UserAttrs, lock \in BOOLEAN :
    Commit("lock_attribute", obj, a, <<>>, 0, lock_attribute(Start, obj, a, lock))

----------------------------------------------------------------------------
\* Spec: the attribute lifecycle (add, delete, lock) on a scene that starts
\* with one transform and no user-defined attribute.

Init ==
  /\ nodes = [n \in {"ctl"} |-> Transform]
  /\ plugs = EmptyPlugs
  /\ conns = {}
  /\ xform = [n \in {"ctl"} |-> Origin]
  /\ call = NoCall
  /\ log = <<>>
  /\ pre = [nodes |-> nodes, plugs |-> plugs, conns |-> conns, xform |-> xform]
  /\ last = EmptyPlugs

Next ==
  \/ Call_add_attr
  \/ Call_create_spacer
  \/ Call_delete_attr
  \/ Call_lock_attr
  \/ Call_un_lock_attr
  \/ Call_add_attribute
  \/ Call_add_separator_attribute
  \/ Call_add_float_attribute
  \/ Call_add_int_attribute
  \/ Call_add_bool_attribute
  \/ Call_add_enum_attribute
  \/ Call_add_matrix_attribute
  \/ Call_add_string_attribute
  \/ Call_add_proxy_attribute
  \/ Call_delete_attribute
  \/ Call_lock_attribute

Spec == Init /\ [][Next]_vars

----------------------------------------------------------------------------
\* SpecAccess: reading, writing, locking and hiding attributes, on a scene
\* whose transform has the attribute u1 and lacks the attribute u2.

Call_toogle_lock_attr ==
  \E n \in Targets, a \in UserAttrs :
    Commit("toogle_lock_attr", n, a, <<>>, 0, toogle_lock_attr(Start, n, a))

Call_hide_attr ==
  \E n \in Targets, a \in UserAttrs :
    Commit("hide_attr", n, a, <<>>, 0, hide_attr(Start, n, a))

Call_un_hide_attr ==
  \E n \in Targets, a \in UserAttrs :
    Commit("un_hide_attr", n, a, <<>>, 0, un_hide_attr(Start, n, a))

Call_lock_and_hide_attr ==
  \E n \in Targets, a \in UserAttrs :
    Commit("lock_and_hide_attr", n, a, <<>>, 0, lock_and_hide_attr(Start, n, a))

Call_set_attr ==
  \E n \in Targets, a \in UserAttrs, v \in Values :
    Commit("set_attr", n, a, <<>>, v, set_attr(Start, n, a, v))

Call_get_attr ==
  \E n \in Targets, a \in UserAttrs :
    Commit("get_attr", n, a, <<>>, 0, get_attr(Start, n, a))

Call_set_attribute_value ==
  \E obj \in Objs, a \in UserAttrs, v \in Values :
    Commit("set_attribute_value", obj, a, <<>>, v,
           set_attribute_value(Start, obj, a, v))

Call_get_attribute_value ==
  \E obj \in Objs, a \in UserAttrs :
    Commit("get_attribute_value", obj, a, <<>>, 0,
           get_attribute_value(Start, obj, a))

Call_set_attribute_keyable ==
  \E obj \in Objs, a \in UserAttrs, keyable \in BOOLEAN :
    Commit("set_attribute_keyable", obj, a, <<B(keyable)>>, 0,
           set_attribute_keyable(Start, obj, a, keyable))

Call_hide_attribute ==
  \E obj \in Objs, a \in UserAttrs, hide \in BOOLEAN :
    Commit("hide_attribute", obj, a, <<>>, 0, hide_attribute(Start, obj, a, hide))

Call_lock_and_hide_attribute ==
  \E obj \in Objs, a \in UserAttrs, lock \in BOOLEAN, hide \in BOOLEAN :
    Commit("lock_and_hide_attribute", obj, a, <<>>, 0,
           lock_and_hide_attribute(Start, obj, a, lock, hide))

InitAccess ==
  /\ nodes = [n \in {"ctl"} |-> Transform]
  /\ plugs = [p \in {<<"ctl", "u1">>} |-> NewPlug(PlainKw)]
  /\ conns = {}
  /\ xform = [n \in {"ctl"} |-> Origin]
  /\ call = NoCall
  /\ log = <<>>
  /\ pre = [nodes |-> nodes, plugs |-> plugs, conns |-> conns, xform |-> xform]
  /\ last = EmptyPlugs

NextAccess ==
  \/ Call_add_separator_attribute
  \/ Call_lock_attr
  \/ Call_un_lock_attr
  \/ Call_toogle_lock_attr
  \/ Call_hide_attr
  \/ Call_un_hide_attr
  \/ Call_lock_and_hide_attr
  \/ Call_set_attr
  \/ Call_get_attr
  \/ Call_set_attribute_value
  \/ Call_get_attribute_value
  \/ Call_set_attribute_keyable
  \/ Call_lock_attribute
  \/ Call_hide_attribute
  \/ Call_lock_and_hide_attribute

SpecAccess == InitAccess /\ [][NextAccess]_vars

----------------------------------------------------------------------------
\* SpecConn: connecting the transform channels and deleting connections.
\* The scene holds a controller ctl, a joint jnt that may be read-only
\* (referenced), and an animation curve crv that may drive attributes of
\* jnt and may itself be driven by ctl (a driven key).

ConnSources == {"ctl", Ghost}

ConnTargets == {"jnt", "crv"}

\* The attributes delete_connection is called with.
ConnAttrs == {"translateX", "scaleZ", "u1", "u2"}

Call_connect_trs ==
  \E source \in ConnSources, target \in ConnTargets, force \in BOOLEAN :
    Commit("connect_trs", target, "", <<source, B(force)>>, 0,
           connect_trs(Start, source, target, force))

Call_connect_translate ==
  \E source \in ConnSources, target \in ConnTargets, force \in BOOLEAN :
    Commit("connect_translate", target, "", <<source>>, 0,
           connect_translate(Start, source, target, force))

Call_connect_rotate ==
  \E source \in ConnSources, target \in ConnTargets, force \in BOOLEAN :
    Commit("connect_rotate", target, "", <<source>>, 0,
           connect_rotate(Start, source, target, force))

Call_connect_scale ==
  \E source \in ConnSources, target \in ConnTargets, force \in BOOLEAN :
    Commit("connect_scale", target, "", <<source>>, 0,
           connect_scale(Start, source, target, force))

Call_lib_connect_trs ==
  \E source \in ConnSources, target \in ConnTargets, force \in BOOLEAN :
    Commit("lib_connect_trs", target, "", <<source, B(force)>>, 0,
           lib_connect_trs(Start, source, target, force))

Call_lib_connect_translate ==
  \E source \in ConnSources, target \in ConnTargets, force \in BOOLEAN :
    Commit("lib_connect_translate", target, "", <<source>>, 0,
           lib_connect_translate(Start, source, target, force))

Call_lib_connect_rotate ==
  \E source \in ConnSources, target \in ConnTargets, force \in BOOLEAN :
    Commit("lib_connect_rotate", target, "", <<source>>, 0,
           lib_connect_rotate(Start, source, target, force))

Call_lib_connect_scale ==
  \E source \in ConnSources, target \in ConnTargets, force \in BOOLEAN :
    Commit("lib_connect_scale", target, "", <<source>>, 0,
           lib_connect_scale(Start, source, target, force))

Call_delete_connection ==
  \E n \in Targets, a \in ConnAttrs :
    Commit("delete_connection", n, a, <<>>, 0, delete_connection(Start, n, a))

Call_lib_delete_connection ==
  \E n \in Targets, a \in ConnAttrs :
    Commit("lib_delete_connection", n, a, <<>>, 0,
           lib_delete_connection(Start, n, a))

\* A built-in attribute of a node.
StaticPlug(locked) ==
  [type |-> "double", locked |-> locked, keyable |-> TRUE, channelBox |-> FALSE,
   value |-> 0, default |-> 0, userDefined |-> FALSE]

ConnScenePlugs ==
  ({"ctl", "jnt"} \X Channels)
    \cup {<<"jnt", "u1">>, <<"crv", "input">>, <<"crv", "output">>}

InitConn ==
  \E ro \in BOOLEAN, lk \in BOOLEAN, keyed \in BOOLEAN,
     driven \in SUBSET {<<"jnt", "u1">>, <<"jnt", "translateX">>} :
    /\ nodes = [n \in {"ctl", "jnt", "crv"} |->
                  IF n = "crv" THEN [type |-> "animCurveUL", readOnly |-> FALSE]
                  ELSE [type |-> "transform", readOnly |-> (n = "jnt" /\ ro)]]
    /\ plugs = [p \in ConnScenePlugs |->
                  IF p = <<"jnt", "u1">> THEN NewPlug(PlainKw)
                  ELSE StaticPlug(p = <<"jnt", "translateX">> /\ lk)]
    /\ conns = {<<<<"crv", "output">>, d>> : d \in driven}
                 \cup (IF keyed THEN {<<<<"ctl", "translateX">>, <<"crv", "input">>>>}
                       ELSE {})
    /\ xform = [n \in {"ctl", "jnt", "crv"} |-> Origin]
    /\ call = NoCall
    /\ log = <<>>
    /\ pre = [nodes |-> nodes, plugs |-> plugs, conns |-> conns, xform |-> xform]
    /\ last = EmptyPlugs

NextConn ==
  \/ Call_connect_trs
  \/ Call_connect_translate
  \/ Call_connect_rotate
  \/ Call_connect_scale
  \/ Call_lib_connect_trs
  \/ Call_lib_connect_translate
  \/ Call_lib_connect_rotate
  \/ Call_lib_connect_scale
  \/ Call_delete_connection
  \/ Call_lib_delete_connection

SpecConn == InitConn /\ [][NextConn]_vars

----------------------------------------------------------------------------
\* SpecLocked: connect_trs of both modules between two transforms, some of
\* whose channels are locked and some already connected.

InitLocked ==
  \E ls \in BOOLEAN, lt \in BOOLEAN, prior \in BOOLEAN, other \in BOOLEAN :
    /\ nodes = [n \in {"ctl", "jnt"} |-> Transform]
    /\ plugs = [p \in {"ctl", "jnt"} \X Channels |->
                  StaticPlug(\/ (p = <<"ctl", "rotateY">> /\ ls)
                             \/ (p = <<"jnt", "translateX">> /\ lt))]
    /\ conns = (IF prior
                THEN {<<<<"ctl", "translateX">>, <<"jnt", "translateX">>>>}
                ELSE {})
               \cup (IF other
                     THEN {<<<<"ctl", "scaleX">>, <<"jnt", "rotateZ">>>>}
                     ELSE {})
    /\ xform = [n \in {"ctl", "jnt"} |-> Origin]
    /\ call = NoCall
    /\ log = <<>>
    /\ pre = [nodes |-> nodes, plugs |-> plugs, conns |-> conns, xform |-> xform]
    /\ last = EmptyPlugs

NextLocked ==
  \/ Call_connect_trs
  \/ Call_lib_connect_trs
  \/ Call_lib_delete_connection

SpecLocked == InitLocked /\ [][NextLocked]_vars

----------------------------------------------------------------------------
\* SpecDisplay: the reference display of two transforms, whose drawing
\* overrides start in any state.

\* The values of overrideDisplayType: normal, template, reference.
DisplayTypes == {0, 1, 2}

Call_toogle_reference_display ==
  \E n \in Targets :
    Commit("toogle_reference_display", n, "", <<>>, 0,
           toogle_reference_display(Start, n))

Call_set_reference_display ==
  \E obj \in Objs, enabled \in BOOLEAN :
    Commit("set_reference_display", obj, "", <<B(enabled)>>, 0,
           set_reference_display(Start, obj, enabled))

OverridePlug(value) ==
  [type |-> "override", locked |-> FALSE, keyable |-> FALSE,
   channelBox |-> FALSE, value |-> value, default |-> 0, userDefined |-> FALSE]

InitDisplay ==
  \E enabled \in [{"ctl", "jnt"} -> BOOLEAN],
     display \in [{"ctl", "jnt"} -> DisplayTypes] :
    /\ nodes = [n \in {"ctl", "jnt"} |-> Transform]
    /\ plugs = [p \in {"ctl", "jnt"} \X {"overrideEnabled", "overrideDisplayType"} |->
                  IF p[2] = "overrideEnabled"
                  THEN OverridePlug(enabled[p[1]])
                  ELSE OverridePlug(display[p[1]])]
    /\ conns = {}
    /\ xform = [n \in {"ctl", "jnt"} |-> Origin]
    /\ call = NoCall
    /\ log = <<>>
    /\ pre = [nodes |-> nodes, plugs |-> plugs, conns |-> conns, xform |-> xform]
    /\ last = EmptyPlugs

NextDisplay ==
  \/ Call_toogle_reference_display
  \/ Call_set_reference_display

SpecDisplay == InitDisplay /\ [][NextDisplay]_vars

----------------------------------------------------------------------------
\* SpecQuery: the connection queries of AttributeHelper on the scenes of
\* SpecConn, where attributes get locked and unlocked.

Call_is_attribute_connected ==
  \E obj \in Objs, a \in ConnAttrs :
    Commit("is_attribute_connected", obj, a, <<>>, 0,
           is_attribute_connected(Start, obj, a))

Call_is_attribute_animated ==
  \E obj \in Objs, a \in ConnAttrs :
    Commit("is_attribute_animated", obj, a, <<>>, 0,
           is_attribute_animated(Start, obj, a))

NextQuery ==
  \/ Call_is_attribute_connected
  \/ Call_is_attribute_animated
  \/ Call_lock_attribute

SpecQuery == InitConn /\ [][NextQuery]_vars

----------------------------------------------------------------------------
\* SpecXform: matrix_helper on two transforms whose world-space position,
\* rotation and scale start at any values.

Call_get_position ==
  \E n \in Targets :
    Commit("get_position", n, "", <<>>, 0, get_position(Start, n))

Call_get_rotation ==
  \E n \in Targets :
    Commit("get_rotation", n, "", <<>>, 0, get_rotation(Start, n))

Call_get_scale ==
  \E n \in Targets :
    Commit("get_scale", n, "", <<>>, 0, get_scale(Start, n))

Call_set_position ==
  \E n \in Targets, v \in Values :
    Commit("set_position", n, "", <<>>, v, set_position(Start, n, v))

Call_set_rotation ==
  \E n \in Targets, v \in Values :
    Commit("set_rotation", n, "", <<>>, v, set_rotation(Start, n, v))

Call_set_scale ==
  \E n \in Targets, v \in Values :
    Commit("set_scale", n, "", <<>>, v, set_scale(Start, n, v))

Call_put_in_place ==
  \E source \in Targets, target \in Targets :
    \E pos \in BOOLEAN, rot \in BOOLEAN, scl \in BOOLEAN :
      Commit("put_in_place", target, "", <<source, B(pos), B(rot), B(scl)>>, 0,
             put_in_place(Start, source, target, pos, rot, scl))

InitXform ==
  /\ nodes = [n \in {"ctl", "jnt"} |-> Transform]
  /\ plugs = EmptyPlugs
  /\ conns = {}
  /\ xform \in [{"ctl", "jnt"} -> [pos : Values, rot : Values, scl : Values]]
  /\ call = NoCall
  /\ log = <<>>
  /\ pre = [nodes |-> nodes, plugs |-> plugs, conns |-> conns, xform |-> xform]
  /\ last = EmptyPlugs

NextXform ==
  \/ Call_get_position
  \/ Call_get_rotation
  \/ Call_get_scale
  \/ Call_set_position
  \/ Call_set_rotation
  \/ Call_set_scale
  \/ Call_put_in_place

SpecXform == InitXform /\ [][NextXform]_vars

----------------------------------------------------------------------------
\* SpecReset: resetting to defaults on a transform that carries user-defined
\* attributes of several types, with any value and any default.

Call_reset_default_values ==
  \E n \in Targets :
    Commit("reset_default_values", n, "", <<>>, 0, reset_default_values(Start, n))

Call_set_user_define_attributes_default_values ==
  \E obj \in Objs :
    Commit("set_user_define_attributes_default_values", obj, "", <<>>, 0,
           set_user_define_attributes_default_values(Start, obj))

ResetTypes == {"double", "bool", "string", "message"}

UserPlug(type, value, default, locked) ==
  [type |-> type, locked |-> locked, keyable |-> TRUE, channelBox |-> FALSE,
   value |-> value, default |-> default, userDefined |-> TRUE]

ChannelPlug(ch, value, locked) ==
  [type |-> "double", locked |-> locked, keyable |-> TRUE, channelBox |-> FALSE,
   value |-> value, default |-> IF ch \in ScaleChannels THEN 1 ELSE 0,
   userDefined |-> FALSE]

InitReset ==
  \E t1 \in ResetTypes, v1 \in Values, d1 \in Values, l1 \in BOOLEAN,
     has2 \in BOOLEAN, v2 \in Values, d2 \in Values,
     cv \in Values, cl \in BOOLEAN, cd \in BOOLEAN :
    /\ nodes = [n \in {"ctl"} |-> Transform]
    /\ plugs = [p \in ({"ctl"} \X Channels)
                        \cup {<<"ctl", "u1">>}
                        \cup (IF has2 THEN {<<"ctl", "u2">>} ELSE {}) |->
                  IF p[2] = "u1" THEN UserPlug(t1, v1, d1, l1)
                  ELSE IF p[2] = "u2" THEN UserPlug("double", v2, d2, FALSE)
                  ELSE ChannelPlug(p[2], cv, p[2] = "translateX" /\ cl)]
    /\ conns = IF cd THEN {<<<<"ctl", "scaleX">>, <<"ctl", "rotateX">>>>} ELSE {}
    /\ xform = [n \in {"ctl"} |-> Origin]
    /\ call = NoCall
    /\ log = <<>>
    /\ pre = [nodes |-> nodes, plugs |-> plugs, conns |-> conns, xform |-> xform]
    /\ last = EmptyPlugs

NextReset ==
  \/ Call_reset_default_values
  \/ Call_set_user_define_attributes_default_values
  \/ Call_set_attr

SpecReset == InitReset /\ [][NextReset]_vars

----------------------------------------------------------------------------
\* SpecCurve: curve_helper on a scene with a curve (transform crv over the
\* shape crvShape), a mesh (msh over mshShape) and an empty group grp.

\* The nodes a curve function is called with.
CurveArgs == {"crv", "crvShape", "grp", "msh", "mshShape", Ghost}

\* The objects a nearest point is asked from.
CurveSources == {"grp", Ghost}

\* What the host does in a call: it carries out every command, or rejects
\* one step on the temporary node.
Faults == NpcSteps \cup {"none"}

Call_get_cvs_number ==
  \E n \in CurveArgs :
    Commit("get_cvs_number", n, "", <<>>, 0, get_cvs_number(Start, n))

Call_get_curve_length ==
  \E n \in CurveArgs :
    Commit("get_curve_length", n, "", <<>>, 0, get_curve_length(Start, n))

Call_convert_to_bezier ==
  \E n \in CurveArgs :
    Commit("convert_to_bezier", n, "", <<>>, 0, convert_to_bezier(Start, n))

Call_get_nearest_point_on_curve ==
  \E n \in CurveArgs, source \in CurveSources :
    \E world_space \in BOOLEAN, fault \in Faults :
      /\ CanCreateNpc(Start)
      /\ Commit("get_nearest_point_on_curve", n, "",
                <<source, B(world_space), fault>>, 0,
                get_nearest_point_on_curve(Start, n, source, world_space, fault))

CurveNode(type, shapes, cvs, length) ==
  [type |-> type, readOnly |-> FALSE, shapes |-> shapes, cvs |-> cvs,
   length |-> length]

InitCurve ==
  \E cvs \in Values, length \in Values, gp \in Values :
    /\ nodes = [n \in {"crv", "crvShape", "grp", "msh", "mshShape"} |->
                  CASE n = "crv" -> CurveNode("transform", <<"crvShape">>, 0, 0)
                    [] n = "crvShape" -> CurveNode("nurbsCurve", <<>>, cvs, length)
                    [] n = "grp" -> CurveNode("transform", <<>>, 0, 0)
                    [] n = "msh" -> CurveNode("transform", <<"mshShape">>, 0, 0)
                    [] n = "mshShape" -> CurveNode("mesh", <<>>, 0, 0)]
    /\ plugs = [p \in {<<"crvShape", "worldSpace">>} |-> StaticPlug(FALSE)]
    /\ conns = {}
    /\ xform = [n \in {"crv", "grp", "msh"} |->
                  [Origin EXCEPT !.pos = IF n = "grp" THEN gp ELSE 0]]
    /\ call = NoCall
    /\ log = <<>>
    /\ pre = [nodes |-> nodes, plugs |-> plugs, conns |-> conns, xform |-> xform]
    /\ last = EmptyPlugs

NextCurve ==
  \/ Call_get_cvs_number
  \/ Call_get_curve_length
  \/ Call_convert_to_bezier
  \/ Call_get_nearest_point_on_curve

SpecCurve == InitCurve /\ [][NextCurve]_vars

----------------------------------------------------------------------------
\* SpecBake: baking the local matrix of a transform into its
\* offsetParentMatrix, on hosts of several versions.

\* The versions of the host: 2019, 2020 and 2023.2.
HostVersions == {<<2019>>, <<2020>>, <<2023, 2>>}

Call_bake_transform_to_offset_parent_matrix ==
  \E n \in Targets, version \in HostVersions :
    Commit("bake_transform_to_offset_parent_matrix", n, "", <<version>>, 0,
           bake_transform_to_offset_parent_matrix(Start, n, version))

InitBake ==
  \E local \in Matrices, opm \in Matrices, locked \in BOOLEAN :
    /\ nodes = [n \in {"ctl"} |-> Transform]
    /\ plugs = [p \in {<<"ctl", "offsetParentMatrix">>} |->
                  [type |-> "matrix", locked |-> locked, keyable |-> FALSE,
                   channelBox |-> FALSE, value |-> opm,
                   default |-> IDENTITY_MATRIX, userDefined |-> FALSE]]
    /\ conns = {}
    /\ xform = [n \in {"ctl"} |->
                  [pos |-> 0, rot |-> 0, scl |-> 0, local |-> local]]
    /\ call = NoCall
    /\ log = <<>>
    /\ pre = [nodes |-> nodes, plugs |-> plugs, conns |-> conns, xform |-> xform]
    /\ last = EmptyPlugs

NextBake == Call_bake_transform_to_offset_parent_matrix

SpecBake == InitBake /\ [][NextBake]_vars

----------------------------------------------------------------------------
\* SpecDefaults: asking for and restoring the default values through
\* AttributeHelper, on the scenes of SpecReset.

\* The attribute lists set_attributes_default_values is called with; the
\* empty one stands for the call without a list.
AttrLists == {<<>>, <<"u1">>, <<"u1", "u2">>, <<"u2", "u1">>}

Call_get_default_value_attribute ==
  \E obj \in Objs, a \in UserAttrs :
    Commit("get_default_value_attribute", obj, a, <<>>, 0,
           get_default_value_attribute(Start, obj, a))

Call_set_attributes_default_values ==
  \E obj \in Objs, attribute_list \in AttrLists :
    Commit("set_attributes_default_values", obj, "", <<attribute_list>>, 0,
           set_attributes_default_values(Start, obj, attribute_list))

NextDefaults ==
  \/ Call_get_default_value_attribute
  \/ Call_set_attributes_default_values
  \/ Call_set_attr

SpecDefaults == InitReset /\ [][NextDefaults]_vars

----------------------------------------------------------------------------
\* Properties.

ThePlug == <<call.node, call.attr>>

ExistedBefore == ThePlug \in DOMAIN pre.plugs

Raised == call.exc # "none"

SceneUnchanged == CurrentScene = pre

Issued(cmd) == {i \in 1..Len(log) : log[i].cmd = cmd}

\* C1: an attribute-adding operation called with an attribute that already
\* exists on the node raises, issues no host addAttr, and leaves the scene
\* as it was.
C1_AddExistingRaisesBeforeHost ==
  (call.op \in AddOps /\ ExistedBefore)
    => (Raised /\ Issued("addAttr") = {} /\ SceneUnchanged)

\* C2: the existence checks is_attr and attribute_exists answer true exactly
\* for the attributes whose last successful lifecycle operation was an add;
\* after a successful delete they answer false until the next successful add.
C2_ExistsIffLastOpWasAdd ==
  \A n \in Targets, a \in UserAttrs :
    /\ is_attr(Start, n, a) = (LastOp(<<n, a>>) = "add")
    /\ n \in Objs => (attribute_exists(Start, n, a) = (LastOp(<<n, a>>) = "add"))

\* C2 witness: a delete of a previously added attribute has just succeeded
\* and the existence check answers false.
C2_Witness ==
  /\ call.op \in DeleteOps
  /\ ~Raised
  /\ ExistedBefore
  /\ LastOp(ThePlug) = "delete"
  /\ ~is_attr(Start, call.node, call.attr)

\* C3: a delete of a missing attribute raises, issues nothing and leaves the
\* scene unchanged; a delete of an existing attribute, locked or not, issues
\* the unlock (setAttr lock=False) and then the deleteAttr, does not raise,
\* and the attribute is gone.
C3_DeleteUnlocksThenDeletes ==
  call.op \in DeleteOps =>
    IF ~ExistedBefore
    THEN Raised /\ log = <<>> /\ SceneUnchanged
    ELSE /\ ~Raised
         /\ ThePlug \notin DOMAIN plugs
         /\ Len(log) = 2
         /\ log[1].cmd = "setAttr" /\ log[1].arg = <<"flags", "F", "-", "-">>
         /\ log[2].cmd = "deleteAttr"
         /\ \A i \in 1..2 : log[i].node = call.node /\ log[i].attr = call.attr

\* C3 witness: a locked attribute has just been deleted.
C3_Witness ==
  /\ call.op \in DeleteOps
  /\ ExistedBefore
  /\ pre.plugs[ThePlug].locked
  /\ ~Raised
  /\ ThePlug \notin DOMAIN plugs

FlagOps ==
  {"lock_attr", "un_lock_attr", "toogle_lock_attr", "hide_attr", "un_hide_attr",
   "lock_and_hide_attr", "set_attribute_keyable", "lock_attribute",
   "hide_attribute", "lock_and_hide_attribute"}

LocalErrors == {"ValueError", "RuntimeError", "Exception"}

\* C4: a locking, hiding or keyable-setting operation of either module,
\* called on an attribute that does not exist, raises a local error and
\* issues no host command.
C4_MutatingMissingRaisesBeforeHost ==
  (call.op \in FlagOps /\ ~ExistedBefore)
    => (call.exc \in LocalErrors /\ log = <<>>)

GetOps == {"get_attr", "get_attribute_value"}

SetOps == {"set_attr", "set_attribute_value"}

\* C5: get and set on a missing attribute raise and leave the scene
\* unchanged; on an existing attribute they issue the host getAttr or setAttr
\* exactly once, for that attribute.
C5_GetSetMissingRaises ==
  /\ (call.op \in GetOps \cup SetOps /\ ~ExistedBefore)
       => (Raised /\ SceneUnchanged)
  /\ (call.op \in GetOps /\ ExistedBefore)
       => (Len(log) = 1 /\ log[1].cmd = "getAttr"
           /\ <<log[1].node, log[1].attr>> = ThePlug)
  /\ (call.op \in SetOps /\ ExistedBefore)
       => (Len(log) = 1 /\ log[1].cmd = "setAttr" /\ log[1].arg = <<"value">>
           /\ <<log[1].node, log[1].attr>> = ThePlug)

\* The scene before the last call, as a machine the queries can read.
PreMachine ==
  [nodes |-> pre.nodes, plugs |-> pre.plugs, conns |-> pre.conns,
   xform |-> pre.xform, log |-> <<>>, exc |-> "none", ret |-> NoRet]

DeleteConnOps == {"delete_connection", "lib_delete_connection"}

\* The last call was a delete_connection on an existing attribute that was
\* the destination of a connection.
DeletedConnectionOfDestination ==
  /\ call.op \in DeleteConnOps
  /\ ExistedBefore
  /\ isDestination(PreMachine, call.node, call.attr)

\* The plug that drove the attribute before the call, and its node.
FormerSource == sourceFromDestination(PreMachine, call.node, call.attr)

FormerSourceNode == FormerSource[1]

\* The nodes upstream of a set of plugs' nodes in the scene before the call.
RECURSIVE UpstreamNodes(_, _)
UpstreamNodes(frontier, seen) ==
  LET reached == {c[1][1] : c \in {d \in pre.conns : d[2][1] \in frontier}} \ seen
  IN IF reached = {} THEN seen
     ELSE UpstreamNodes(reached, seen \cup reached)

\* The nodes of the upstream subgraph that fed the attribute.
FedBy == UpstreamNodes({FormerSourceNode}, {FormerSourceNode})

\* C6: delete_connection on a read-only destination removes exactly the edge
\* from its source: the plug has no incoming connection afterwards, no node
\* and no attribute is deleted, and every other connection is unchanged.
C6_ReadOnlyDestinationLosesOneEdge ==
  (DeletedConnectionOfDestination /\ pre.nodes[call.node].readOnly)
    => /\ ~Raised
       /\ conns = pre.conns \ {<<FormerSource, ThePlug>>}
       /\ Cardinality(pre.conns \ conns) = 1
       /\ ~isDestination(Start, call.node, call.attr)
       /\ nodes = pre.nodes
       /\ plugs = pre.plugs

\* C6 witness: the connection from the animation curve into an attribute of
\* the read-only joint has just been removed, and the curve is still there.
C6_Witness ==
  /\ DeletedConnectionOfDestination
  /\ pre.nodes[call.node].readOnly
  /\ FormerSourceNode = "crv"
  /\ ~isDestination(Start, call.node, call.attr)
  /\ "crv" \in DOMAIN nodes

\* C7 as stated: delete_connection on a destination that is not read-only
\* leaves the attribute undriven, the destination node in place, and none of
\* the upstream nodes that fed it.
C7_UpstreamSubgraphDeleted ==
  (DeletedConnectionOfDestination /\ ~pre.nodes[call.node].readOnly)
    => /\ ~isDestination(Start, call.node, call.attr)
       /\ call.node \in DOMAIN nodes
       /\ \A u \in FedBy : u \notin DOMAIN nodes

\* The former source node drove nothing but the attribute.
FedOnlyThePlug ==
  \A c \in pre.conns : c[1][1] = FormerSourceNode => c[2] = ThePlug

\* C7 as amended: delete_connection on a destination that is not read-only
\* issues the host delete of the plug's inputs once; afterwards the attribute
\* is not driven and the destination node and every scene object (DAG node)
\* still exist; the node that fed the attribute is gone exactly when it is a
\* dependency node that drove nothing else, and only nodes upstream of the
\* attribute are deleted.
C7_InputBrokenLeftBehindDeleted ==
  (DeletedConnectionOfDestination /\ ~pre.nodes[call.node].readOnly)
    => /\ ~Raised
       /\ Len(log) = 1 /\ log[1].cmd = "delete"
       /\ <<log[1].node, log[1].attr>> = ThePlug
       /\ ~isDestination(Start, call.node, call.attr)
       /\ call.node \in DOMAIN nodes
       /\ (FormerSourceNode \notin DOMAIN nodes)
            = (/\ pre.nodes[FormerSourceNode].type \notin DagTypes
               /\ ~pre.nodes[FormerSourceNode].readOnly
               /\ FedOnlyThePlug)
       /\ \A u \in DOMAIN pre.nodes :
            u \notin DOMAIN nodes
              => (u \in FedBy /\ pre.nodes[u].type \notin DagTypes)

\* C7 witness: the animation curve that drove only the attribute has just
\* been deleted with the connection.
C7_Witness ==
  /\ DeletedConnectionOfDestination
  /\ ~pre.nodes[call.node].readOnly
  /\ FormerSourceNode = "crv"
  /\ "crv" \notin DOMAIN nodes
  /\ call.node \in DOMAIN nodes

PlaceSource == call.other[1]

PlaceFlag(i) == call.other[i] = "T"

\* The xform writes the call issued, as <<node, component>> pairs.
XformWrites ==
  {<<log[i].node, log[i].arg[2]>> :
     i \in {j \in 1..Len(log) : log[j].cmd = "xform" /\ log[j].arg[1] = "set"}}

\* The components whose flag the call passed as true.
FlaggedComponents ==
  (IF PlaceFlag(2) THEN {"pos"} ELSE {})
    \cup (IF PlaceFlag(3) THEN {"rot"} ELSE {})
    \cup (IF PlaceFlag(4) THEN {"scl"} ELSE {})

PlacedNodesExisted ==
  /\ call.op = "put_in_place"
  /\ PlaceSource \in DOMAIN pre.nodes
  /\ call.node \in DOMAIN pre.nodes

\* C8: put_in_place(source, target, pos, rot, scl) on two existing nodes
\* writes each of position, rotation and scale of the target exactly when
\* its flag is true, with the value the source holds; with pos only, the
\* target's rotation and scale stay as they were; the source keeps every
\* value and nothing else in the scene changes.
C8_PutInPlaceWritesFlaggedOnly ==
  PlacedNodesExisted =>
    /\ ~Raised
    /\ xform[call.node].pos =
         IF PlaceFlag(2) THEN pre.xform[PlaceSource].pos ELSE pre.xform[call.node].pos
    /\ xform[call.node].rot =
         IF PlaceFlag(3) THEN pre.xform[PlaceSource].rot ELSE pre.xform[call.node].rot
    /\ xform[call.node].scl =
         IF PlaceFlag(4) THEN pre.xform[PlaceSource].scl ELSE pre.xform[call.node].scl
    /\ xform[PlaceSource] = pre.xform[PlaceSource]
    /\ \A n \in DOMAIN xform \ {call.node} : xform[n] = pre.xform[n]
    /\ XformWrites = {<<call.node, k>> : k \in FlaggedComponents}
    /\ nodes = pre.nodes /\ plugs = pre.plugs /\ conns = pre.conns

\* A position-only placement between two nodes that differed in position,
\* rotation and scale.
C8_Witness ==
  /\ PlacedNodesExisted
  /\ PlaceFlag(2) /\ ~PlaceFlag(3) /\ ~PlaceFlag(4)
  /\ PlaceSource # call.node
  /\ pre.xform[PlaceSource].pos # pre.xform[call.node].pos
  /\ pre.xform[PlaceSource].rot # pre.xform[call.node].rot
  /\ pre.xform[PlaceSource].scl # pre.xform[call.node].scl
  /\ xform[call.node].pos = pre.xform[PlaceSource].pos
  /\ xform[call.node].rot = pre.xform[call.node].rot

ResetOps == {"reset_default_values", "set_user_define_attributes_default_values"}

\* The user-defined message and string attributes the node had at the call.
TextAttrs ==
  {a \in UserAttrs : /\ <<call.node, a>> \in DOMAIN pre.plugs
                     /\ pre.plugs[<<call.node, a>>].userDefined
                     /\ pre.plugs[<<call.node, a>>].type \in {"message", "string"}}

SetIssuedOn(a) ==
  \E i \in 1..Len(log) :
    log[i].cmd = "setAttr" /\ log[i].node = call.node /\ log[i].attr = a

\* C9: a reset to defaults (reset_default_values or
\* set_user_define_attributes_default_values) on an existing node issues no
\* setAttr on a user-defined message or string attribute, leaves that
\* attribute as it was, and does not raise.
C9_ResetSkipsMessageAndString ==
  (call.op \in ResetOps /\ call.node \in DOMAIN pre.nodes) =>
    /\ ~Raised
    /\ \A a \in TextAttrs :
         /\ ~SetIssuedOn(a)
         /\ plugs[<<call.node, a>>] = pre.plugs[<<call.node, a>>]

\* A reset on a node with an unlocked string attribute whose value is not
\* its default, next to a numeric attribute that the reset did set.
C9_Witness ==
  /\ call.op \in ResetOps
  /\ ~Raised
  /\ \E a \in TextAttrs :
       /\ ~pre.plugs[<<call.node, a>>].locked
       /\ pre.plugs[<<call.node, a>>].value # pre.plugs[<<call.node, a>>].default
       /\ plugs[<<call.node, a>>].value = pre.plugs[<<call.node, a>>].value
  /\ \E a \in UserAttrs \ TextAttrs :
       /\ SetIssuedOn(a)
       /\ plugs[<<call.node, a>>].value # pre.plugs[<<call.node, a>>].value

\* The user-defined settable attributes, not message or string, the node had
\* at the call.
ResettableAttrs ==
  {a \in UserAttrs : /\ <<call.node, a>> \in DOMAIN pre.plugs
                     /\ pre.plugs[<<call.node, a>>].userDefined
                     /\ getAttr_settable(PreMachine, call.node, a)
                     /\ pre.plugs[<<call.node, a>>].type \notin {"message", "string"}}

\* C10: after reset_default_values(node) on an existing node, every
\* user-defined settable attribute that is neither message nor string holds
\* its default value, a default of 0 or False included.
C10_ResetRestoresEveryDefault ==
  (call.op = "reset_default_values" /\ call.node \in DOMAIN pre.nodes /\ ~Raised) =>
    \A a \in ResettableAttrs :
      plugs[<<call.node, a>>].value = pre.plugs[<<call.node, a>>].default

\* C11: get_nearest_point_on_curve leaves the nodes and connections of the
\* scene as they were before the call, whether it returns or raises.
C11_TemporaryNodeNeverLeftBehind ==
  call.op = "get_nearest_point_on_curve" =>
    (DOMAIN nodes = DOMAIN pre.nodes /\ conns = pre.conns)

CurveOps ==
  {"get_cvs_number", "get_curve_length", "get_nearest_point_on_curve",
   "convert_to_bezier"}

\* The machine a curve function called as the last call was, but with
\* another node, ends in when started from the scene before the call.
SameCallWith(n) ==
  CASE call.op = "get_cvs_number" -> get_cvs_number(PreMachine, n)
    [] call.op = "get_curve_length" -> get_curve_length(PreMachine, n)
    [] call.op = "convert_to_bezier" -> convert_to_bezier(PreMachine, n)
    [] call.op = "get_nearest_point_on_curve" ->
         get_nearest_point_on_curve(PreMachine, n, call.other[1],
                                    call.other[2] = "T", call.other[3])

\* The curve queries and mutations of the host.
CurveCommands ==
  {"getAttr", "arclen", "select", "nurbsCurveToBezier", "createNode",
   "connectAttr", "setAttr", "delete"}

\* C12: a curve function called with the shape crvShape of a nurbs curve
\* gives the outcome (exception, result and scene) it gives when called
\* with the transform crv.
C12_ShapeAndTransformAgree ==
  (/\ call.op \in CurveOps
   /\ call.node = "crvShape"
   /\ pre.nodes["crvShape"].type = "nurbsCurve") =>
    LET viaTransform == SameCallWith("crv")
    IN /\ call.exc = viaTransform.exc
       /\ call.ret = viaTransform.ret
       /\ CurrentScene = Scene(viaTransform)

\* The node resolves to a nurbs curve: it is one, or its first shape is.
ResolvesToCurve(n) ==
  \/ pre.nodes[n].type = "nurbsCurve"
  \/ /\ pre.nodes[n].shapes # <<>>
     /\ pre.nodes[pre.nodes[n].shapes[1]].type = "nurbsCurve"

\* C13: get_cvs_number, get_curve_length and get_nearest_point_on_curve
\* raise a ValueError, with no curve query issued, for a missing node and
\* for an existing node that does not resolve to a nurbs curve.
C13_NotACurveRaisesValueError ==
  (/\ call.op \in CurveOps \ {"convert_to_bezier"}
   /\ \/ call.node \notin DOMAIN pre.nodes
      \/ ~ResolvesToCurve(call.node)) =>
    /\ call.exc = "ValueError"
    /\ \A i \in 1..Len(log) : log[i].cmd \notin CurveCommands

BakeOp == "bake_transform_to_offset_parent_matrix"

OffsetParentMatrix(sc, n) == sc.plugs[<<n, "offsetParentMatrix">>].value

\* The transform a node ends up with: local matrix times offsetParentMatrix.
Resultant(sc, n) == MMatrix_mul(sc.xform[n].local, OffsetParentMatrix(sc, n))

Baked == call.op = BakeOp /\ ~Raised

\* After a bake that returned: the local matrix is the identity, the
\* offsetParentMatrix is old local times old offsetParentMatrix, and the
\* resultant transform is the one before the call.
BakeComposes ==
  Baked =>
    /\ xform[call.node].local = IDENTITY_MATRIX
    /\ OffsetParentMatrix(CurrentScene, call.node) =
         MMatrix_mul(pre.xform[call.node].local, OffsetParentMatrix(pre, call.node))
    /\ Resultant(CurrentScene, call.node) = Resultant(pre, call.node)

\* A bake that returns right after a bake of the same node that returned
\* changes neither matrix.
BakeTwice ==
  (/\ Baked
   /\ call'.op = BakeOp /\ call'.exc = "none" /\ call'.node = call.node) =>
    (plugs' = plugs /\ xform' = xform)

\* C14: bake_transform_to_offset_parent_matrix on a supported host sets the
\* local matrix to the identity and offsetParentMatrix to (old local) x (old
\* offsetParentMatrix), so that the resultant transform is kept; a second
\* bake right after the first changes nothing.
C14_BakeKeepsResultantAndIsIdempotent == []BakeComposes /\ [][BakeTwice]_vars

\* A bake of a node whose local matrix and offsetParentMatrix did not
\* commute and were not the identity.
C14_Witness ==
  /\ Baked
  /\ pre.xform[call.node].local # IDENTITY_MATRIX
  /\ MMatrix_mul(pre.xform[call.node].local, OffsetParentMatrix(pre, call.node))
       # MMatrix_mul(OffsetParentMatrix(pre, call.node), pre.xform[call.node].local)
  /\ OffsetParentMatrix(CurrentScene, call.node) # OffsetParentMatrix(pre, call.node)

BakeVersion == MajorVersion(call.other[1])

\* The commands that read or write transform data.
TransformDataCommands == {"xform", "getAttr", "setAttr"}

\* C15: on a host older than 2020 bake_transform_to_offset_parent_matrix
\* raises its version error, for a missing node too, issues no command that
\* reads or writes transform data and leaves the scene as it was; on a host
\* of version 2020 or higher a missing node raises the ValueError.
C15_VersionCheckedBeforeNode ==
  call.op = BakeOp =>
    /\ BakeVersion < 2020 =>
         /\ call.exc = "Exception"
         /\ \A i \in 1..Len(log) : log[i].cmd \notin TransformDataCommands
         /\ SceneUnchanged
    /\ (BakeVersion >= 2020 /\ call.node \notin DOMAIN pre.nodes) =>
         (call.exc = "ValueError" /\ SceneUnchanged)

\* A bake of a missing node on an old host, refused for the version.
C15_Witness ==
  /\ call.op = BakeOp
  /\ BakeVersion < 2020
  /\ call.node \notin DOMAIN pre.nodes
  /\ call.exc = "Exception"

\* The helpers that issue several host commands.
SeveralCommandOps ==
  {"connect_trs", "connect_translate", "connect_rotate", "connect_scale",
   "lib_connect_trs", "lib_connect_translate", "lib_connect_rotate",
   "lib_connect_scale", "put_in_place", "reset_default_values",
   "set_attributes_default_values", "bake_transform_to_offset_parent_matrix",
   "create_animation_curve"}

\* C16: a helper that issues several host commands and raises leaves the
\* scene as it was before the call.
C16_RaisingCallChangesNothing ==
  (call.op \in SeveralCommandOps /\ Raised) => SceneUnchanged

\* The connections the attribute of the call was an end of before the call.
ConnectionsOfThePlug == {c \in pre.conns : c[1] = ThePlug \/ c[2] = ThePlug}

\* C17: delete_connection on an existing attribute that is the input or the
\* output end of a connection removes that connection.
C17_ConnectionDeletedAtEitherEnd ==
  (call.op \in DeleteConnOps /\ ExistedBefore) =>
    \A c \in ConnectionsOfThePlug : c \notin conns

\* C18: set_attribute_keyable(a, keyable=k) on an existing attribute sets
\* its keyable flag to k and its channel-box flag to not k; after
\* add_separator_attribute(s) the separator exists, is not keyable and is
\* locked.
C18_SetKeyableSetsTheFlag ==
  /\ (call.op = "set_attribute_keyable" /\ ExistedBefore) =>
       /\ plugs[ThePlug].keyable = (call.other[1] = "T")
       /\ plugs[ThePlug].channelBox = (call.other[1] = "F")
  /\ (call.op = "add_separator_attribute" /\ ~Raised) =>
       /\ ThePlug \in DOMAIN plugs
       /\ ~plugs[ThePlug].keyable
       /\ plugs[ThePlug].locked

HadIncoming == ExistedBefore /\ isDestination(PreMachine, call.node, call.attr)

\* C19: is_attribute_connected returns True exactly when the attribute
\* exists and has an incoming connection, locked or not; is_attribute_animated
\* returns True exactly when the node feeding it is an animation curve.
C19_ConnectedIffIncoming ==
  /\ call.op = "is_attribute_connected" =>
       (call.ret = RetTrue <=> HadIncoming)
  /\ call.op = "is_attribute_animated" =>
       (call.ret = RetTrue <=>
          (HadIncoming /\ pre.nodes[FormerSourceNode].type \in AnimCurveTypes))

Toggled == call.op = "toogle_lock_attr" /\ ~Raised

\* A toggle of an existing attribute flips its lock flag and nothing else.
ToggleFlips ==
  (call.op = "toogle_lock_attr" /\ ExistedBefore) =>
    /\ ~Raised
    /\ plugs = [pre.plugs EXCEPT ![ThePlug].locked = ~@]
    /\ nodes = pre.nodes /\ conns = pre.conns /\ xform = pre.xform

\* The next call is a toggle of the attribute of this call, and returns.
ToggledNext ==
  /\ call'.op = "toogle_lock_attr" /\ call'.exc = "none"
  /\ call'.node = call.node /\ call'.attr = call.attr

\* Two toggles in a row restore the attributes of before the first.
ToggleTwice == (Toggled /\ ToggledNext) => plugs' = pre.plugs

\* A toggle right after lock_attr leaves the attribute unlocked.
LockThenToggle ==
  (call.op = "lock_attr" /\ ~Raised /\ ToggledNext) => ~plugs'[ThePlug].locked

\* C20: toogle_lock_attr flips the lock flag of the named attribute and
\* changes nothing else; two toggles in a row restore the lock state, and a
\* toggle after lock_attr leaves the attribute unlocked.
C20_ToggleFlipsTheLock ==
  []ToggleFlips /\ [][ToggleTwice /\ LockThenToggle]_vars

\* A toggle that unlocked a locked attribute.
C20_Witness ==
  /\ Toggled
  /\ pre.plugs[ThePlug].locked
  /\ ~plugs[ThePlug].locked

ChannelValue(sc, ch) == sc.plugs[<<call.node, ch>>].value

\* After reset_default_values on an existing node: a channel that was
\* settable holds 1 (scale) or 0, a channel that was locked or driven holds
\* its value, and the call did not raise; on a missing node the call raised
\* ValueError with nothing issued.
ResetChannels ==
  call.op = "reset_default_values" =>
    IF call.node \in DOMAIN pre.nodes
    THEN /\ ~Raised
         /\ \A ch \in Channels :
              ChannelValue(CurrentScene, ch) =
                IF getAttr_settable(PreMachine, call.node, ch)
                THEN (IF ch \in ScaleChannels THEN 1 ELSE 0)
                ELSE ChannelValue(pre, ch)
    ELSE call.exc = "ValueError" /\ log = <<>> /\ SceneUnchanged

\* A reset that returns right after a reset of the same node that returned
\* changes nothing.
ResetTwice ==
  (/\ call.op = "reset_default_values" /\ ~Raised
   /\ call'.op = "reset_default_values" /\ call'.exc = "none"
   /\ call'.node = call.node) =>
    (nodes' = nodes /\ plugs' = plugs /\ conns' = conns /\ xform' = xform)

\* C21: reset_default_values sets every settable translate and rotate
\* channel to 0 and every settable scale channel to 1, leaves the locked and
\* driven channels alone without raising, raises ValueError for a missing
\* node before any channel is read, and done twice gives the state of once.
C21_ResetChannelsToDefaults == []ResetChannels /\ [][ResetTwice]_vars

\* A reset that zeroed a translate channel, set a scale channel to 1 and
\* left a locked channel and a driven channel at their values.
C21_Witness ==
  /\ call.op = "reset_default_values" /\ ~Raised
  /\ pre.plugs[<<call.node, "translateX">>].locked
  /\ isDestination(PreMachine, call.node, "rotateX")
  /\ \E ch \in {"translateY", "scaleY"} :
       ChannelValue(pre, ch) # ChannelValue(CurrentScene, ch)
  /\ \E ch \in {"translateX", "rotateX"} :
       /\ ChannelValue(pre, ch) # 0
       /\ ChannelValue(CurrentScene, ch) = ChannelValue(pre, ch)

ConnectSource == call.other[1]

\* The channel was locked, before the call, on the source or on the target.
LockedOnEither(ch) ==
  \/ pre.plugs[<<ConnectSource, ch>>].locked
  \/ pre.plugs[<<call.node, ch>>].locked

Incoming(sc, ch) == {c \in sc.conns : c[2] = <<call.node, ch>>}

LibConnectedTrs ==
  /\ call.op = "lib_connect_trs"
  /\ ConnectSource \in DOMAIN pre.nodes
  /\ call.node \in DOMAIN pre.nodes

\* C22: the connect_trs of attributes/lib.py issues no connectAttr for a
\* channel locked on the source or on the target; when it returns, every
\* channel unlocked on both nodes is driven by the same-named source channel
\* and every locked channel has the incoming connections it had; and with
\* no channel locked its outcome is that of the connect_trs of
\* attribute_helper.py.
C22_LockedChannelsAreSkipped ==
  LibConnectedTrs =>
    /\ \A i \in 1..Len(log) :
         log[i].cmd = "connectAttr" => ~LockedOnEither(log[i].attr)
    /\ ~Raised =>
         \A ch \in Channels :
           IF LockedOnEither(ch)
           THEN Incoming(CurrentScene, ch) = Incoming(pre, ch)
           ELSE <<<<ConnectSource, ch>>, <<call.node, ch>>>> \in conns
    /\ (\A ch \in Channels : ~LockedOnEither(ch)) =>
         LET free == connect_trs(PreMachine, ConnectSource, call.node,
                                 call.other[2] = "T")
         IN call.exc = free.exc /\ CurrentScene = Scene(free)

\* A connect_trs of lib.py that returned, left a channel locked on the source
\* and a channel locked on the target unconnected, and connected another.
C22_Witness ==
  /\ LibConnectedTrs /\ ~Raised
  /\ pre.plugs[<<ConnectSource, "rotateY">>].locked
  /\ pre.plugs[<<call.node, "translateX">>].locked
  /\ Incoming(CurrentScene, "rotateY") = {}
  /\ Incoming(CurrentScene, "translateX") = {}
  /\ Incoming(pre, "scaleY") = {}
  /\ Incoming(CurrentScene, "scaleY") # {}

OverrideEnabled(sc, n) == sc.plugs[<<n, "overrideEnabled">>].value

OverrideDisplayType(sc, n) == sc.plugs[<<n, "overrideDisplayType">>].value

ToggledDisplay ==
  call.op = "toogle_reference_display" /\ call.node \in DOMAIN pre.nodes

\* After a toggle of an existing node: overrideEnabled is negated,
\* overrideDisplayType is 2 when it is now true and 0 otherwise, and the
\* scene is the one set_reference_display(not old overrideEnabled) gives; a
\* toggle of a missing node raised ValueError and changed nothing.
TogglePairs ==
  call.op = "toogle_reference_display" =>
    IF call.node \in DOMAIN pre.nodes
    THEN /\ ~Raised
         /\ OverrideEnabled(CurrentScene, call.node) = ~OverrideEnabled(pre, call.node)
         /\ OverrideDisplayType(CurrentScene, call.node) =
              (IF OverrideEnabled(CurrentScene, call.node) THEN 2 ELSE 0)
         /\ CurrentScene =
              Scene(set_reference_display(PreMachine, call.node,
                                          ~OverrideEnabled(pre, call.node)))
    ELSE call.exc = "ValueError" /\ SceneUnchanged

\* Two toggles of a node in a row restore its overrideEnabled.
ToggleDisplayTwice ==
  (/\ ToggledDisplay
   /\ call'.op = "toogle_reference_display" /\ call'.node = call.node) =>
    OverrideEnabled([plugs |-> plugs'], call.node) = OverrideEnabled(pre, call.node)

\* C23: toogle_reference_display negates overrideEnabled and leaves
\* overrideDisplayType at 2 exactly when overrideEnabled is now true and at
\* 0 otherwise; two toggles in a row restore overrideEnabled; one toggle
\* gives the state of set_reference_display(not old overrideEnabled); a
\* missing node raises ValueError with no change.
C23_ToggleKeepsOverridePairing ==
  []TogglePairs /\ [][ToggleDisplayTwice]_vars

\* A toggle that switched the reference display on from a state where the
\* two override attributes did not go together.
C23_Witness ==
  /\ ToggledDisplay /\ ~Raised
  /\ ~OverrideEnabled(pre, call.node)
  /\ OverrideDisplayType(pre, call.node) = 1
  /\ OverrideEnabled(CurrentScene, call.node)
  /\ OverrideDisplayType(CurrentScene, call.node) = 2

TextTypes == {"message", "string"}

\* C24: get_default_value_attribute raises ValueError for an existing
\* message or string attribute before the default is queried and returns
\* None for a missing attribute; set_attributes_default_values, with or
\* without an attribute list, issues no setAttr on a message or string
\* attribute and leaves it as it was.
C24_NoDefaultForMessageAndString ==
  /\ call.op = "get_default_value_attribute" =>
       /\ (ExistedBefore /\ pre.plugs[ThePlug].type \in TextTypes) =>
            (call.exc = "ValueError" /\ Issued("attributeQuery") = {})
       /\ ~ExistedBefore => (~Raised /\ call.ret = NoRet)
  /\ call.op = "set_attributes_default_values" =>
       \A a \in TextAttrs :
         /\ ~SetIssuedOn(a)
         /\ plugs[<<call.node, a>>] = pre.plugs[<<call.node, a>>]

\* A set_attributes_default_values that set some attributes and then raised
\* at a settable string or message attribute.
C24_Witness ==
  /\ call.op = "set_attributes_default_values"
  /\ call.exc = "ValueError"
  /\ Issued("setAttr") # {}
  /\ \E a \in TextAttrs : getAttr_settable(PreMachine, call.node, a)

====
